---- MODULE Spec2Model ----
(***************************************************************************)
(* Model of the ingestion core of chat6v: the chunker                      *)
(* (processChunksStreaming), the batched store writes (saveChunksBatch),   *)
(* the corpus reset (clearAllExistingData) and the batch driver            *)
(* (processPdfStreaming, migrateToFirestore); and of the reading side: the *)
(* source viewer with its page estimator (SourceViewer, chunksByPage), the *)
(* citation markers of a model message (Message), the navigation state of  *)
(* App, and the shared preview panel (TooltipProvider).                    *)
(*                                                                         *)
(* A text is modelled as its length and the positions of the characters    *)
(* the chunker can tell apart: '.', newline and space.  Every other        *)
(* position holds an ordinary letter.                                      *)
(***************************************************************************)
EXTENDS Integers, Sequences, FiniteSets, TLC

\* ------------------------------------------------------------------ bounds

\* Longest text handed to the chunker on its own (three windows: 0, 1800, 3600).
MaxTextLen == 4000
\* Largest total page count of a document.
MaxPages == 3
\* Most records the pdf_chunks collection holds before a rebuild (three batches).
MaxOldChunks == 201
\* Most records the pdf_documents collection holds before a rebuild.
MaxOldDocs == 2
\* Most files a manifest names.
MaxFiles == 2
\* chunks of the document whose shape varies, when one document is viewed
MaxChunks == 10
\* chunks of that document when the viewer goes from document to document
MaxViewerChunks == 3
\* largest totalPages of that document
MaxDocPages == 5
\* source clicks and marker clicks in one run of the reading side
MaxNavigations == 2
\* characters in the bold span of the message
MaxSpanLen == 3
\* calls made on TooltipProvider in one run
MaxCalls == 4
\* Timers of one SourceViewer pending at a time.
MaxTimers == 3

\* ------------------------------------------------------- program constants

chunkSize == 2000
overlap == 200
\* WriteBatch size of processChunksStreaming.
batchSize == 2
\* `stuckCount > 3` ends the loop.
maxStuck == 3
\* Delete batch size of clearAllExistingData (batchSize, docBatchSize).
deleteBatchSize == 100
\* Commit attempts per delete batch.
maxRetries == 3
\* chunksByPage: chunks per estimated page when totalPages is unknown
chunksPerPage == 3
\* handleTooltipMouseLeave: delay of the hide timer, in ms
leaveDelay == 300
\* Delay after which handlePreviousPage / handleNextPage resume the observer.
settleDelay == 400
\* Delay before the scroll effect scrolls to the first chunk of the page.
scrollDelay == 50
\* Delay after which the scroll effect resumes the observer.
scrollSettleDelay == 300
\* Cooldown of the wheel navigation.
wheelCooldown == 300
\* Delay after which the observer of the text view passes the page on.
observerDebounce == 100
\* The unit the clock of the timers counts in (ms); it divides every delay.
TimeUnit == scrollDelay

\* ------------------------------------------------------------------- state

VARIABLES
    text,          \* processChunksStreaming's argument: [len, marks]
    totalPages,    \* processChunksStreaming's argument
    proc,          \* locals of the running processChunksStreaming
    produced,      \* every chunk record pushed to chunkDataList so far, in order
    pdf_chunks,    \* records committed to the pdf_chunks collection, in order
    pdf_documents, \* records added to the pdf_documents collection, in order
    existing,      \* records from before the run still in each collection
    mpc,           \* where migrateToFirestore stands
    cl,            \* locals of clearAllExistingData
    commitLog,     \* delete batches committed by clearAllExistingData, in order
    snapshots,     \* size of each snapshot clearAllExistingData has read (-1: none)
    clearSuccess,  \* what clearAllExistingData returned (FALSE before)
    mig,           \* locals of migrateToFirestore
    processedLog,  \* manifest indexes handed to processPdfStreaming, in order
    rejectedFiles, \* manifest indexes of files with a rejected chunk batch commit
    report,        \* the failure list printed at the end of the run
    app,           \* state of App: selection, highlight, view mode, page
    viewer,        \* state of the mounted SourceViewer and its loads in flight
    message,       \* the model message on screen: chunkReferences, a bold span
    dispatched,    \* marker activations in order: the number, the events dispatched
    tooltip,       \* state of TooltipProvider
    embed,         \* state of EmbedPdfViewer, with the props it was given
    observers      \* IntersectionObservers of the text view that can still act

chunkVars == <<text, totalPages, proc, produced>>
storeVars == <<pdf_chunks, pdf_documents, existing>>
migrateVars == <<mpc, cl, commitLog, snapshots, clearSuccess, mig,
                 processedLog, rejectedFiles, report>>
uiVars == <<app, viewer, message, dispatched, tooltip, embed, observers>>
vars == <<text, totalPages, proc, produced, pdf_chunks, pdf_documents, existing,
          mpc, cl, commitLog, snapshots, clearSuccess, mig, processedLog,
          rejectedFiles, report, app, viewer, message, dispatched, tooltip,
          embed, observers>>

\* ----------------------------------------------------------------- strings

Max(S) == CHOOSE x \in S : \A y \in S : y <= x
Min2(a, b) == IF a <= b THEN a ELSE b
Max2(a, b) == IF a >= b THEN a ELSE b

\* The characters String.prototype.trim removes, among those a text holds.
Whitespace == {" ", "\n"}

\* text[i]
CharAt(t, i) == IF i \in DOMAIN t.marks THEN t.marks[i] ELSE "a"

\* text.slice(from, to).lastIndexOf(c): relative to `from`, -1 when absent.
lastIndexOf(t, from, to, c) ==
    LET hits == {i \in DOMAIN t.marks : from <= i /\ i < to /\ t.marks[i] = c}
    IN  IF hits = {} THEN -1 ELSE Max(hits) - from

\* First index of text.slice(from, to) that trim keeps (to when none).
RECURSIVE trimStart(_, _, _)
trimStart(t, from, to) ==
    IF from < to /\ CharAt(t, from) \in Whitespace
    THEN trimStart(t, from + 1, to)
    ELSE from

\* One past the last index of text.slice(from, to) that trim keeps.
RECURSIVE trimEnd(_, _, _)
trimEnd(t, from, to) ==
    IF from < to /\ CharAt(t, to - 1) \in Whitespace
    THEN trimEnd(t, from, to - 1)
    ELSE to

\* text.slice(from, to).trim(), as the range of the text it keeps.
trim(t, from, to) ==
    LET s == trimStart(t, from, to)
    IN  <<s, trimEnd(t, s, to)>>

\* content.length of a chunk record
ContentLength(c) == c.content[2] - c.content[1]

\* ------------------------------------------------------------------ chunker

\* Mutant of calculatePageNumber: the page counted from 0 (the `+ 1` lost).
calculatePageNumber_zeroBased(textPosition, totalTextLength, pages) ==
    IF pages = 0 \/ totalTextLength = 0
    THEN 1
    ELSE Min2((textPosition * pages) \div totalTextLength, pages)

\* Math.floor((textPosition / totalTextLength) * totalPages) + 1, capped.
calculatePageNumber(textPosition, totalTextLength, pages) ==
    IF pages = 0 \/ totalTextLength = 0
    THEN 1
    ELSE Min2(((textPosition * pages) \div totalTextLength) + 1, pages)

\* The page stored with a chunk cut at `position`.
pageNumber(position, t, pages) ==
    IF pages > 0 THEN calculatePageNumber(position, t.len, pages) ELSE 1

\* Math.max(lastSentenceEnd, lastNewline, lastSpace) over the window.
cutPoint(t, position, end) ==
    Max({lastIndexOf(t, position, end, "."),
         lastIndexOf(t, position, end, "\n"),
         lastIndexOf(t, position, end, " ")})

\* chunk.length after the sentence-boundary cut of the window [position, end).
chunkLength(t, position, end) ==
    IF end < t.len /\ 2 * cutPoint(t, position, end) > 2 * position + chunkSize
    THEN cutPoint(t, position, end) + 1
    ELSE end - position

\* Mutant of endPosOf: the end of the window, whatever the chunk kept of it.
endPosOf_windowEnd(position, len) == position + chunkSize

\* metadata.endPos: position + chunk.length
endPosOf(position, len) == position + len

\* The record pushed to chunkDataList for the window at `position`.
chunkData(documentId, t, pages, position, chunkIndex) ==
    LET end == Min2(position + chunkSize, t.len)
        len == chunkLength(t, position, end)
    IN  [documentId   |-> documentId,
         content      |-> trim(t, position, position + len),
         position     |-> chunkIndex,
         startPos     |-> position,
         endPos       |-> endPosOf(position, len),
         originalSize |-> len,
         page         |-> pageNumber(position, t, pages)]

\* Mutant of nextPosition: the overlap is applied after the last window too.
nextPosition_noLastWindow(t, position) ==
    Max2(Min2(position + chunkSize, t.len) - overlap, 0)

\* The position of the next window.
nextPosition(t, position) ==
    LET end == Min2(position + chunkSize, t.len)
    IN  IF end >= t.len THEN t.len ELSE Max2(end - overlap, 0)

\* saveChunksBatch: the number saved, given whether batch.commit() resolved.
saveChunksBatch(chunkDataList, committed) ==
    IF committed THEN Len(chunkDataList) ELSE 0

\* The collection after saveChunksBatch.
storeAfterSave(store, chunkDataList, committed) ==
    IF committed THEN store \o chunkDataList ELSE store

\* Locals of processChunksStreaming on entry.
procInit(documentId) ==
    [pc |-> "loop", documentId |-> documentId, position |-> 0, chunkIndex |-> 0,
     successCount |-> 0, lastPosition |-> -1, stuckCount |-> 0,
     chunkDataList |-> <<>>]

\* No processChunksStreaming is running.
procIdle == [procInit(0) EXCEPT !.pc = "idle"]

\* The stall guard at the head of the loop body: <<stuckCount, lastPosition, break>>.
stallGuard(p) ==
    IF p.position = p.lastPosition
    THEN <<p.stuckCount + 1, p.lastPosition, p.stuckCount + 1 > maxStuck>>
    ELSE <<0, p.position, FALSE>>

\* One evaluation of `while (position < text.length)` and its body; `committed`
\* is the outcome of the batch commit the body may make.  Returns the new
\* locals, the chunk records created, the collection and whether
\* saveChunksBatch was called.
loopStep(p, t, pages, store, committed) ==
    IF p.position >= t.len
    THEN [proc |-> [p EXCEPT !.pc = "flush"], made |-> <<>>, store |-> store,
          saved |-> FALSE]
    ELSE
    LET g == stallGuard(p)
    IN  IF g[3]
        THEN [proc |-> [p EXCEPT !.pc = "flush", !.stuckCount = g[1]],
              made |-> <<>>, store |-> store, saved |-> FALSE]
        ELSE
        LET c    == chunkData(p.documentId, t, pages, p.position, p.chunkIndex)
            list == Append(p.chunkDataList, c)
            full == Len(list) >= batchSize
        IN  [proc |-> [p EXCEPT
                 !.stuckCount = g[1],
                 !.lastPosition = g[2],
                 !.chunkDataList = IF full THEN <<>> ELSE list,
                 !.successCount = IF full
                                  THEN @ + saveChunksBatch(list, committed)
                                  ELSE @,
                 !.position = nextPosition(t, p.position),
                 !.chunkIndex = @ + 1],
             made |-> <<c>>,
             store |-> IF full THEN storeAfterSave(store, list, committed)
                       ELSE store,
             saved |-> full]

\* The code after the loop: save what is left and return successCount.
flushStep(p, store, committed) ==
    LET rest == Len(p.chunkDataList) > 0
    IN  [proc |-> [p EXCEPT
             !.pc = "done",
             !.successCount = IF rest
                              THEN @ + saveChunksBatch(p.chunkDataList, committed)
                              ELSE @],
         store |-> IF rest THEN storeAfterSave(store, p.chunkDataList, committed)
                   ELSE store,
         saved |-> rest]

\* ------------------------------------------------------------ idle values

\* Locals of clearAllExistingData for one collection with n snapshot records.
clearLocals(coll, n) ==
    [coll |-> coll, n |-> n, i |-> 0, retryCount |-> 0, attempts |-> 0,
     deleted |-> 0]

clIdle == clearLocals("none", 0)
noSnapshots == [pdf_chunks |-> -1, pdf_documents |-> -1]
noReport == [printed |-> FALSE, failedFiles |-> <<>>]
migIdle ==
    [pdfFiles |-> <<>>, i |-> 0, totalDocuments |-> 0, totalChunks |-> 0,
     failedFiles |-> <<>>]

\* App before any document is selected (useState initial values).
\* "" stands for undefined; sourceClicks holds the handleSourceClick calls
\* waiting for getAllDocuments; navigations counts the source clicks and
\* marker clicks made.
appInit ==
    [selectedDocumentId |-> "", highlightedChunkId |-> "",
     pdfViewerMode |-> "text", pdfCurrentPage |-> 1,
     pdfFilename |-> "", sourceClicks |-> {}, navigations |-> 0]

\* No load has completed in this SourceViewer.
noLoad == [documentId |-> "", ok |-> FALSE]

\* SourceViewer when it is not mounted, and its state right after mounting
\* (useState / useRef initial values).  loads holds the loadChunks calls in
\* flight, started counts the calls made, lastLoaded is the last call that
\* ended and anyFailed tells whether one of them failed; timers holds the
\* setTimeout calls of this viewer that have not come due, requestedPage the
\* page the last handler passed to onPdfPageChange (0: none yet).
viewerInit ==
    [mounted |-> FALSE, chunks |-> <<>>, isLoading |-> FALSE,
     documentTitle |-> "", maxPdfPage |-> 0, documentTotalPages |-> 0,
     started |-> 0, loads |-> {}, lastLoaded |-> noLoad, anyFailed |-> FALSE,
     searchText |-> <<>>, suppressObserverRef |-> FALSE,
     wheelCooldownRef |-> FALSE, timers |-> {}, requestedPage |-> 0]

\* No model message is on screen.
noMessage == [hasReferences |-> FALSE, chunkReferences |-> <<>>, span |-> <<>>]

\* hideTimeoutRef.current = null.
noTimer == [uniqueKey |-> "", tooltipRef |-> "", live |-> FALSE, set |-> FALSE]

\* No call has been made on TooltipProvider.
noCall ==
    [op |-> "", uniqueKey |-> "", content |-> "", visibleBefore |-> "",
     timerBefore |-> FALSE, count |-> 0]

\* TooltipProvider on mount (useState / useRef initial values).
\* hideRequested is the visible key a delayed hide was asked for, with no
\* showTooltip or cancelHide call since ("": none).
tooltipInit ==
    [tooltipRef |-> "", tooltipContent |-> "", tooltipPosition |-> "",
     hideTimeoutRef |-> noTimer, lastCall |-> noCall, hideRequested |-> ""]

\* EmbedPdfViewer is not rendered: the text view is shown.
embedIdle ==
    [mounted |-> FALSE, pdfUrl |-> <<>>, currentPage |-> 1, numPages |-> 0,
     pageNumber |-> 1, loading |-> TRUE, error |-> "", document |-> "none",
     lastOp |-> ""]

\* The reading side is not running.
UiIdle ==
    /\ app = appInit
    /\ viewer = viewerInit
    /\ message = noMessage
    /\ dispatched = <<>>
    /\ tooltip = tooltipInit
    /\ embed = embedIdle
    /\ observers = {}

\* ------------------------------------------------- the chunker on one text

\* Separator layouts of the texts chunked: position -> character.
TextMarks ==
    { <<>>,
      (1000 :> " "),
      (1001 :> " "),
      (1900 :> "."),
      (1200 :> ".") @@ (1500 :> "\n"),
      (1800 :> " ") @@ (1999 :> " "),
      (3300 :> ".") }

\* The marks of m that lie inside a text of length n.
Within(m, n) == [i \in {j \in DOMAIN m : j < n} |-> m[i]]

ChunkInit ==
    /\ \E n \in 0..MaxTextLen, m \in TextMarks :
           text = [len |-> n, marks |-> Within(m, n)]
    /\ totalPages \in 0..MaxPages
    /\ proc = procInit(1)
    /\ produced = <<>>
    /\ pdf_chunks = <<>>
    /\ pdf_documents = <<>>
    /\ existing = [pdf_chunks |-> 0, pdf_documents |-> 0]
    /\ mpc = "chunking"
    /\ cl = clIdle
    /\ commitLog = <<>>
    /\ snapshots = noSnapshots
    /\ clearSuccess = FALSE
    /\ mig = migIdle
    /\ processedLog = <<>>
    /\ rejectedFiles = {}
    /\ report = noReport
    /\ UiIdle

\* One pass of the while loop of processChunksStreaming.
ChunkLoop ==
    /\ proc.pc = "loop"
    /\ \E committed \in BOOLEAN :
           LET r == loopStep(proc, text, totalPages, pdf_chunks, committed)
           IN  /\ proc' = r.proc
               /\ produced' = produced \o r.made
               /\ pdf_chunks' = r.store
    /\ UNCHANGED <<uiVars, text, totalPages, pdf_documents, existing, migrateVars>>

\* The final save and the return of processChunksStreaming.
ChunkFlush ==
    /\ proc.pc = "flush"
    /\ \E committed \in BOOLEAN :
           LET r == flushStep(proc, pdf_chunks, committed)
           IN  /\ proc' = r.proc
               /\ pdf_chunks' = r.store
    /\ UNCHANGED <<uiVars, text, totalPages, produced, pdf_documents, existing,
                   migrateVars>>

ChunkNext == ChunkLoop \/ ChunkFlush

SpecChunk == ChunkInit /\ [][ChunkNext]_vars

\* --------------------------------------------------------- corpus rebuild

\* The record addDocumentToFirestore adds for manifest entry `index`.
documentData(index, file) ==
    [filename |-> index, totalPages |-> file.pages, totalChunks |-> 0,
     totalSize |-> file.text.len]

\* What processPdfStreaming returns when it catches an error.
failure(reason) == [success |-> FALSE, error |-> reason, chunks |-> 0]

\* What processPdfStreaming returns after processChunksStreaming returned.
success(addedChunks) == [success |-> TRUE, error |-> "", chunks |-> addedChunks]

\* processPdfStreaming up to the call of processChunksStreaming: the error it
\* catches, "" when it gets there.  addOk: addDoc resolved.
errorBeforeChunks(file, addOk) ==
    IF file.kind = "missing" THEN "not found"
    ELSE IF file.kind = "unparsable" THEN "parse"
    ELSE IF ~addOk THEN "addDoc"
    ELSE ""

\* Mutant of proceedsAfterClear: the result of the reset is ignored.
proceedsAfterClear_always(cleared) == TRUE

\* `if (!clearSuccess) return`: whether migrateToFirestore goes on to ingest.
proceedsAfterClear(cleared) == cleared

\* Mutant of nextFileIndex: a failed file ends the loop.
nextFileIndex_stopOnFailure(i, result, n) == IF result.success THEN i + 1 ELSE n

\* The loop variable of migrateToFirestore after one file (`i++`).
nextFileIndex(i, result, n) == i + 1

\* The locals of migrateToFirestore after processPdfStreaming returned
\* `result` for manifest entry `index`.
afterFile(m, index, result) ==
    [m EXCEPT
        !.i = nextFileIndex(m.i, result, Len(m.pdfFiles)),
        !.totalDocuments = IF result.success THEN @ + 1 ELSE @,
        !.totalChunks = IF result.success THEN @ + result.chunks ELSE @,
        !.failedFiles = IF result.success THEN @
                        ELSE Append(@, [file |-> index, error |-> result.error])]

\* batch.slice(i, i + batchSize): one past the last snapshot index deleted.
batchEnd(c) == Min2(c.i + deleteBatchSize, c.n)

\* Mutant of afterFailedCommit: a batch out of attempts is skipped, not
\* rethrown (what clearFirestore does).
afterFailedCommit_skipBatch(c) ==
    [cl |-> IF c.retryCount + 1 >= maxRetries
            THEN [c EXCEPT !.i = @ + deleteBatchSize, !.retryCount = 0,
                           !.attempts = 0]
            ELSE [c EXCEPT !.retryCount = @ + 1, !.attempts = @ + 1],
     thrown |-> FALSE]

\* The catch block of the retry loop: the locals, and whether it rethrows.
afterFailedCommit(c) ==
    [cl |-> [c EXCEPT !.retryCount = @ + 1, !.attempts = @ + 1],
     thrown |-> c.retryCount + 1 >= maxRetries]

\* The try block of the retry loop when batch.commit() resolves, then the
\* next pass of the for loop.
afterCommit(c) ==
    [c EXCEPT !.deleted = @ + (batchEnd(c) - c.i),
              !.i = @ + deleteBatchSize,
              !.retryCount = 0,
              !.attempts = 0]

\* What a manifest entry can name.
Files ==
    { [kind |-> "missing", text |-> [len |-> 0, marks |-> <<>>], pages |-> 0],
      [kind |-> "unparsable", text |-> [len |-> 0, marks |-> <<>>], pages |-> 0],
      [kind |-> "pdf", text |-> [len |-> 2500, marks |-> (1001 :> " ")],
       pages |-> 2],
      [kind |-> "pdf", text |-> [len |-> 4000, marks |-> <<>>], pages |-> 0] }

Manifests == UNION {[1..n -> Files] : n \in 0..MaxFiles}

MigrateInit ==
    /\ text = [len |-> 0, marks |-> <<>>]
    /\ totalPages = 0
    /\ proc = procIdle
    /\ produced = <<>>
    /\ pdf_chunks = <<>>
    /\ pdf_documents = <<>>
    /\ \E nc \in 0..MaxOldChunks, nd \in 0..MaxOldDocs :
           existing = [pdf_chunks |-> nc, pdf_documents |-> nd]
    /\ mpc = "start"
    /\ cl = clIdle
    /\ commitLog = <<>>
    /\ snapshots = noSnapshots
    /\ clearSuccess = FALSE
    /\ mig = migIdle
    /\ processedLog = <<>>
    /\ rejectedFiles = {}
    /\ report = noReport
    /\ UiIdle

\* clearAllExistingData reads the pdf_chunks snapshot.
ClearBegin ==
    /\ mpc = "start"
    /\ mpc' = "clear"
    /\ cl' = clearLocals("pdf_chunks", existing.pdf_chunks)
    /\ snapshots' = [snapshots EXCEPT !.pdf_chunks = existing.pdf_chunks]
    /\ UNCHANGED <<uiVars, chunkVars, storeVars, commitLog, clearSuccess, mig,
                   processedLog, rejectedFiles, report>>

\* One pass of `while (!success && retryCount < maxRetries)`.
DeleteAttempt ==
    /\ mpc = "clear"
    /\ cl.i < cl.n
    /\ \E committed \in BOOLEAN :
           IF committed
           THEN /\ cl' = afterCommit(cl)
                /\ commitLog' = Append(commitLog,
                       [coll |-> cl.coll, from |-> cl.i, to |-> batchEnd(cl)])
                /\ existing' = [existing EXCEPT ![cl.coll] = @ - (batchEnd(cl) - cl.i)]
                /\ UNCHANGED <<mpc, clearSuccess>>
           ELSE LET f == afterFailedCommit(cl)
                IN  /\ cl' = f.cl
                    /\ mpc' = IF f.thrown THEN "cleared" ELSE mpc
                    /\ clearSuccess' = IF f.thrown THEN FALSE ELSE clearSuccess
                    /\ UNCHANGED <<commitLog, existing>>
    /\ UNCHANGED <<uiVars, chunkVars, pdf_chunks, pdf_documents, snapshots, mig,
                   processedLog, rejectedFiles, report>>

\* The chunk loop is over: clearAllExistingData reads the pdf_documents snapshot.
ClearDocsBegin ==
    /\ mpc = "clear"
    /\ cl.coll = "pdf_chunks"
    /\ cl.i >= cl.n
    /\ cl' = clearLocals("pdf_documents", existing.pdf_documents)
    /\ snapshots' = [snapshots EXCEPT !.pdf_documents = existing.pdf_documents]
    /\ UNCHANGED <<uiVars, chunkVars, storeVars, mpc, commitLog, clearSuccess, mig,
                   processedLog, rejectedFiles, report>>

\* The document loop is over: clearAllExistingData returns true.
ClearReturn ==
    /\ mpc = "clear"
    /\ cl.coll = "pdf_documents"
    /\ cl.i >= cl.n
    /\ mpc' = "cleared"
    /\ clearSuccess' = TRUE
    /\ UNCHANGED <<uiVars, chunkVars, storeVars, cl, commitLog, snapshots, mig,
                   processedLog, rejectedFiles, report>>

\* migrateToFirestore after the reset: it returns, or reads the manifest
\* (getPdfFiles throws without one, which ends the process).
AfterClear ==
    /\ mpc = "cleared"
    /\ cl' = clIdle
    /\ commitLog' = <<>>
    /\ snapshots' = noSnapshots
    /\ IF proceedsAfterClear(clearSuccess)
       THEN \E found \in BOOLEAN :
                IF found
                THEN /\ \E m \in Manifests : mig' = [migIdle EXCEPT !.pdfFiles = m]
                     /\ mpc' = "files"
                ELSE /\ mig' = mig
                     /\ mpc' = "exit"
       ELSE /\ mig' = mig
            /\ mpc' = "done"
    /\ UNCHANGED <<uiVars, chunkVars, storeVars, clearSuccess, processedLog,
                   rejectedFiles, report>>

\* A pass of the file loop of migrateToFirestore, up to the call of
\* processChunksStreaming; a file that fails before it ends the pass here.
BeginFile ==
    /\ mpc = "files"
    /\ mig.i < Len(mig.pdfFiles)
    /\ \E addOk \in BOOLEAN :
           LET index == mig.i + 1
               file  == mig.pdfFiles[index]
               error == errorBeforeChunks(file, addOk)
           IN  /\ processedLog' = Append(processedLog, index)
               /\ IF error # ""
                  THEN /\ mig' = afterFile(mig, index, failure(error))
                       /\ UNCHANGED <<chunkVars, pdf_documents, mpc>>
                  ELSE /\ pdf_documents' = Append(pdf_documents,
                                                  documentData(index, file))
                       /\ text' = file.text
                       /\ totalPages' = file.pages
                       /\ proc' = procInit(Len(pdf_documents) + 1)
                       /\ produced' = <<>>
                       /\ mpc' = "chunking"
                       /\ mig' = mig
    /\ UNCHANGED <<uiVars, pdf_chunks, existing, cl, commitLog, snapshots, clearSuccess,
                   rejectedFiles, report>>

\* processChunksStreaming returned: the rest of the pass of the file loop.
EndFile ==
    /\ mpc = "chunking"
    /\ proc.pc = "done"
    /\ mig.i < Len(mig.pdfFiles)
    /\ mig' = afterFile(mig, mig.i + 1, success(proc.successCount))
    /\ rejectedFiles' = IF proc.successCount < proc.chunkIndex
                        THEN rejectedFiles \cup {mig.i + 1}
                        ELSE rejectedFiles
    /\ proc' = procIdle
    /\ mpc' = "files"
    /\ UNCHANGED <<uiVars, text, totalPages, produced, storeVars, cl, commitLog,
                   snapshots, clearSuccess, processedLog, report>>

\* The code after the file loop: the totals and the failed files are printed.
MigrateReport ==
    /\ mpc = "files"
    /\ mig.i >= Len(mig.pdfFiles)
    /\ report' = [printed |-> TRUE, failedFiles |-> mig.failedFiles]
    /\ mpc' = "done"
    /\ UNCHANGED <<uiVars, chunkVars, storeVars, cl, commitLog, snapshots,
                   clearSuccess, mig, processedLog, rejectedFiles>>

MigrateNext ==
    \/ ClearBegin
    \/ DeleteAttempt
    \/ ClearDocsBegin
    \/ ClearReturn
    \/ AfterClear
    \/ BeginFile
    \/ ChunkLoop
    \/ ChunkFlush
    \/ EndFile
    \/ MigrateReport

SpecMigrate == MigrateInit /\ [][MigrateNext]_vars

\* ------------------------------------------------------ the page estimator

\* allPagesZero of chunksByPage: the collection is non-empty and no chunk
\* carries a page (absent and 0 are both 0 here).
allPagesZero(chunks) ==
    Len(chunks) > 0 /\ \A i \in 1..Len(chunks) : chunks[i].page = 0

\* --------------------------------------------------- claims on the chunker

ChunkDone == proc.pc = "done"

\* ceil(a / b) for b > 0
CeilDiv(a, b) == (a + b - 1) \div b

\* C1: once a text T has been chunked, the ranges [startPos, endPos) of the
\* chunks produced cover [0, len(T)): the first chunk starts at 0, the last
\* ends at len(T), and no chunk starts after the end of the one before it.
C1_ChunkCoverage ==
    (ChunkDone /\ text.len > 0) =>
        /\ produced # <<>>
        /\ produced[1].startPos = 0
        /\ produced[Len(produced)].endPos = text.len
        /\ \A i \in 1..(Len(produced) - 1) :
               produced[i + 1].startPos <= produced[i].endPos

C3_OverlapBound ==
    ChunkDone =>
        \A i \in 1..(Len(produced) - 2) :
            LET d == produced[i].endPos - produced[i + 1].startPos
            IN  0 <= d /\ d <= overlap

\* C4: the loop of processChunksStreaming runs at most
\* ceil(len(T) / (chunkSize - overlap)) times, each pass producing one chunk:
\* whenever the loop condition still holds, fewer passes than that have run,
\* and the position has moved since the pass before (the stall guard never
\* counts).
C4_IterationBound ==
    /\ proc.chunkIndex <= CeilDiv(text.len, chunkSize - overlap)
    /\ Len(produced) = proc.chunkIndex
    /\ proc.stuckCount = 0
    /\ (proc.pc = "loop" /\ proc.position < text.len) =>
           /\ proc.chunkIndex < CeilDiv(text.len, chunkSize - overlap)
           /\ proc.position # proc.lastPosition

\* C4 witness: a text of more than one window was chunked in exactly
\* ceil(len(T) / (chunkSize - overlap)) passes.
C4_BoundReached ==
    /\ ChunkDone
    /\ proc.chunkIndex >= 3
    /\ proc.chunkIndex = CeilDiv(text.len, chunkSize - overlap)

\* C5: with totalPages > 0 every stored chunk has
\* page = min(totalPages, floor(startPos / len(T) * totalPages) + 1), which
\* lies in [1, totalPages] and does not decrease along the stored chunks.
C5_PageFromPosition ==
    totalPages > 0 =>
        /\ \A i \in 1..Len(pdf_chunks) :
               /\ pdf_chunks[i].page =
                      Min2(totalPages,
                           ((pdf_chunks[i].startPos * totalPages) \div text.len) + 1)
               /\ 1 <= pdf_chunks[i].page
               /\ pdf_chunks[i].page <= totalPages
        /\ \A i \in 1..(Len(pdf_chunks) - 1) :
               pdf_chunks[i].page <= pdf_chunks[i + 1].page

\* C5 witness: three chunks of a three-page document were stored, on pages
\* 1, 2 and 3.
C5_ThreePagesStored ==
    /\ ChunkDone
    /\ totalPages = 3
    /\ Len(pdf_chunks) = 3
    /\ pdf_chunks[1].page = 1
    /\ pdf_chunks[2].page = 2
    /\ pdf_chunks[3].page = 3

\* C6: with totalPages = 0 every chunk is stored with page 0 or unset, so
\* that the estimator finds the stored collection unpaginated.
C6_UnknownPagesStoredAsZero ==
    (totalPages = 0 /\ pdf_chunks # <<>>) => allPagesZero(pdf_chunks)

\* --------------------------------------------- claims on the corpus rebuild

\* The manifest indexes of the failed files, in the order they were recorded.
FailedIndexes(list) == [k \in 1..Len(list) |-> list[k].file]

\* C7: a failure while parsing or ingesting one file does not stop the run:
\* the files are handed to processPdfStreaming once each, in manifest order;
\* every file that cannot be read or added is recorded as failed; the
\* failures are printed only after the last file, and a run whose reset
\* succeeded and whose manifest was read ends only with that report.
C7_FailureDoesNotStopRun ==
    /\ Len(processedLog) <= Len(mig.pdfFiles)
    /\ \A j \in 1..Len(processedLog) : processedLog[j] = j
    /\ \A j \in 1..mig.i :
           mig.pdfFiles[j].kind # "pdf" =>
               \E k \in 1..Len(mig.failedFiles) : mig.failedFiles[k].file = j
    /\ mig.totalDocuments + Len(mig.failedFiles) = mig.i
    /\ report.printed =>
           /\ Len(processedLog) = Len(mig.pdfFiles)
           /\ report.failedFiles = mig.failedFiles
    /\ (mpc = "done" /\ clearSuccess = TRUE) => report.printed

\* C7 witness: the first of two files failed, the second was ingested, and
\* the failure was reported at the end.
C7_RunContinuedAfterFailure ==
    /\ mpc = "done"
    /\ report.printed
    /\ Len(mig.pdfFiles) = 2
    /\ FailedIndexes(report.failedFiles) = <<1>>
    /\ mig.totalDocuments = 1
    /\ pdf_chunks # <<>>

\* C8: a document one of whose chunk batch commits was rejected is in the
\* failure list reported at the end of the run.
C8_StoreFailureRecorded ==
    report.printed =>
        \A f \in rejectedFiles :
            \E k \in 1..Len(report.failedFiles) : report.failedFiles[k].file = f

\* C9: no document or chunk record is written, and no file is handed to
\* processPdfStreaming, unless clearAllExistingData has returned true; after
\* it returned false the run ends having written nothing.
C9_NothingWrittenBeforeClear ==
    /\ (\/ pdf_chunks # <<>>
        \/ pdf_documents # <<>>
        \/ processedLog # <<>>
        \/ mpc \in {"files", "chunking"}) => clearSuccess = TRUE
    /\ (mpc = "done" /\ ~clearSuccess) => ~report.printed

\* C9 witness: chunks were written after a reset that had to delete records.
C9_WrittenAfterClear ==
    /\ clearSuccess = TRUE
    /\ pdf_chunks # <<>>
    /\ pdf_documents # <<>>
    /\ existing = [pdf_chunks |-> 0, pdf_documents |-> 0]

\* The commits of commitLog that deleted snapshot record r of collection coll.
CommitsOf(coll, r) ==
    {k \in 1..Len(commitLog) :
        /\ commitLog[k].coll = coll
        /\ commitLog[k].from <= r
        /\ r < commitLog[k].to}

\* The delete batches of a snapshot of n records that start before index i.
BatchesBefore(coll, n, i) ==
    LET count == Min2(CeilDiv(n, deleteBatchSize), CeilDiv(i, deleteBatchSize))
    IN  [k \in 1..count |->
            [coll |-> coll, from |-> (k - 1) * deleteBatchSize,
             to |-> Min2(k * deleteBatchSize, n)]]

estimatedPage_roundsUp(index, n, pages) ==
    IF pages > 0
        THEN (index * pages + n - 1) \div n + 1
        ELSE index \div chunksPerPage + 1

\* Mutant of estimatedPage: the fixed chunks-per-page rule whatever the
\* total is.
estimatedPage_ignoresTotal(index, n, pages) == index \div chunksPerPage + 1

\* The page chunksByPage estimates for the chunk at 0-based `index` of `n`
\* chunks none of which carries a page.  The code takes index / n * pages in
\* double arithmetic; its floor is the exact one for every n <= MaxChunks + 1
\* and pages <= MaxDocPages + 1.
estimatedPage(index, n, pages) ==
    IF pages > 0
        THEN Min2((index * pages) \div n + 1, pages)
        ELSE index \div chunksPerPage + 1

\* pageNum of chunksByPage for the chunk at 1-based position i.
pageNum(chunks, pages, i) ==
    IF allPagesZero(chunks)
        THEN estimatedPage(i - 1, Len(chunks), pages)
        ELSE chunks[i].page

\* Mutant of bucket: each chunk is put in front of those pushed before.
bucket_newestFirst(chunks, pages, p) ==
    LET idx == {i \in 1..Len(chunks) : pageNum(chunks, pages, i) = p}
    IN  [k \in 1..Cardinality(idx) |->
            chunks[CHOOSE i \in idx : Cardinality({j \in idx : j >= i}) = k]]

\* The chunks pushed to grouped[p], in the order forEach visits them.
bucket(chunks, pages, p) ==
    LET idx == {i \in 1..Len(chunks) : pageNum(chunks, pages, i) = p}
    IN  [k \in 1..Cardinality(idx) |->
            chunks[CHOOSE i \in idx : Cardinality({j \in idx : j <= i}) = k]]

\* Object.keys(chunksByPage): the pages that own a chunk.
pageKeys(chunks, pages) ==
    LET zero == allPagesZero(chunks)
        n == Len(chunks)
    IN  {IF zero THEN estimatedPage(i - 1, n, pages) ELSE chunks[i].page :
            i \in 1..n}

\* chunksByPage: the page-bucket map of a chunk collection.
chunksByPage(chunks, pages) ==
    [p \in pageKeys(chunks, pages) |-> bucket(chunks, pages, p)]

\* The key of the bucket that holds the chunk with this id (-1: none), as
\* the loops over Object.entries(chunksByPage) find it.
pageOfChunk(chunks, pages, chunkId) ==
    LET idx == {i \in 1..Len(chunks) : chunks[i].id = chunkId}
    IN  IF idx = {} THEN -1
        ELSE pageNum(chunks, pages, CHOOSE i \in idx : \A j \in idx : i <= j)

\* ------------------------------------------------------------- the library

\* getDocumentById resolves to null.
noDocument == [id |-> "", title |-> "", totalPages |-> 0]

\* FirestoreService.getDocumentById.
getDocumentById(documents, documentId) ==
    IF \E i \in 1..Len(documents) : documents[i].id = documentId
        THEN documents[CHOOSE i \in 1..Len(documents) :
                           documents[i].id = documentId]
        ELSE noDocument

\* FirestoreService.getChunksByDocument: the document's chunks in ingestion
\* order (the order of the collection).
chunkOf(c, documentId) == c.documentId = documentId

getChunksByDocument(chunks, documentId) ==
    LET idx == {i \in 1..Len(chunks) : chunkOf(chunks[i], documentId)}
    IN  [k \in 1..Cardinality(idx) |->
            chunks[CHOOSE i \in idx : Cardinality({j \in idx : j <= i}) = k]]

\* ---------------------------------------------------------------- Message

Digits == {"0", "1", "2", "3"}

\* Number.parseInt of one digit.
digitValue(c) == CASE c = "0" -> 0 [] c = "1" -> 1 [] c = "2" -> 2 [] OTHER -> 3

\* String.prototype.trim on the span's characters.
RECURSIVE trimChars(_)
trimChars(cs) ==
    IF cs = <<>> THEN cs
    ELSE IF Head(cs) \in Whitespace THEN trimChars(Tail(cs))
    ELSE IF cs[Len(cs)] \in Whitespace THEN trimChars(SubSeq(cs, 1, Len(cs) - 1))
    ELSE cs

\* The automaton of /^(\d+\s*)+\d*$/.  States: "start" before the first
\* digit of the first group, "digits" inside a \d+ (or the trailing \d*),
\* "spaces" inside a \s*.  A new group or the trailing \d* may begin after
\* either of the last two, which are the accepting states.
regexStep(q, c) ==
    CASE q = "start"  /\ c \in Digits     -> "digits"
      [] q = "digits" /\ c \in Digits     -> "digits"
      [] q = "digits" /\ c \in Whitespace -> "spaces"
      [] q = "spaces" /\ c \in Whitespace -> "spaces"
      [] q = "spaces" /\ c \in Digits     -> "digits"
      [] OTHER                            -> "dead"

RECURSIVE regexRun(_, _)
regexRun(q, cs) ==
    IF cs = <<>> THEN q ELSE regexRun(regexStep(q, Head(cs)), Tail(cs))

\* Mutant of isNumberSequence: digits only, no whitespace between them.
isNumberSequence_digitsOnly(cs) ==
    cs # <<>> /\ \A i \in 1..Len(cs) : cs[i] \in Digits

\* isNumberSequence of the strong renderer.
isNumberSequence(cs) == regexRun("start", cs) \in {"digits", "spaces"}

\* text.split(/\s+/).map(n => parseInt(n.trim())) on a number sequence:
\* `acc` is the value of the digits read since the last whitespace, `open`
\* says whether there are any.
RECURSIVE splitNumbers(_, _, _)
splitNumbers(cs, acc, open) ==
    IF cs = <<>> THEN (IF open THEN <<acc>> ELSE <<>>)
    ELSE IF Head(cs) \in Whitespace
        THEN (IF open THEN <<acc>> ELSE <<>>) \o splitNumbers(Tail(cs), 0, FALSE)
        ELSE splitNumbers(Tail(cs), acc * 10 + digitValue(Head(cs)), TRUE)

\* The strong renderer: a group of marker buttons, one per number, or plain
\* emphasis.
strong(m) ==
    LET t == trimChars(m.span)
    IN  IF isNumberSequence(t) /\ m.hasReferences
            THEN [kind |-> "markers", numbers |-> splitNumbers(t, 0, FALSE)]
            ELSE [kind |-> "emphasis", numbers |-> <<>>]

\* a || b on strings.
Or(a, b) == IF a # "" THEN a ELSE b

\* The detail handleReferenceClick builds from a reference.
detailOf(chunk) ==
    [documentId |-> Or(chunk.documentId, chunk.id),
     chunkId    |-> Or(chunk.chunkId, chunk.chunk_id),
     title      |-> Or(chunk.documentTitle, chunk.title),
     page       |-> IF chunk.page # 0 THEN chunk.page ELSE chunk.metadataPage]

\* The chunkIndex range test of handleReferenceClick.
inRange(m, referenceNumber) ==
    referenceNumber - 1 >= 0 /\ referenceNumber - 1 < Len(m.chunkReferences)

\* Mutant of referenceAt: the marker number is taken as a 0-based index.
referenceAt_zeroBased(m, referenceNumber) ==
    m.chunkReferences[(referenceNumber % Len(m.chunkReferences)) + 1]

\* The reference a marker number resolves to (the caller checks the range).
referenceAt(m, referenceNumber) == m.chunkReferences[(referenceNumber - 1) + 1]

\* Mutant of isValid: the chunk id is not looked at.
isValid_documentOnly(detail) == detail.documentId # ""

\* The validity test of handleReferenceClick on the resolved ids.
isValid(detail) == detail.documentId # "" /\ detail.chunkId # ""

\* handleReferenceClick of Message: the events it dispatches (none or one).
handleReferenceClick(m, referenceNumber) ==
    IF m.hasReferences /\ Len(m.chunkReferences) > 0 /\ inRange(m, referenceNumber)
        THEN LET detail == detailOf(referenceAt(m, referenceNumber))
             IN  IF isValid(detail) THEN <<detail>> ELSE <<>>
        ELSE <<>>

\* -------------------------------------------------------------------- App

\* Mutant of viewModeFor: the text view whatever the page.
viewModeFor_alwaysText(page) == "text"

\* The view mode handleReferenceClick of App sets for the page of an event.
viewModeFor(page) == IF page > 0 THEN "pdf" ELSE "text"

\* handleReferenceClick of App: the state it sets on a referenceClick event.
onReferenceClick(a, detail) ==
    IF detail.documentId # "" /\ detail.chunkId # ""
        THEN [a EXCEPT !.selectedDocumentId = detail.documentId,
                       !.highlightedChunkId = detail.chunkId,
                       !.pdfViewerMode = viewModeFor(detail.page),
                       !.pdfCurrentPage = IF detail.page > 0 THEN detail.page ELSE @]
        ELSE a

\* ----------------------------------------------------------- SourceViewer

\* The viewer shows its header and chunks (neither early return is taken).
Ready(a, v) == a.selectedDocumentId # "" /\ v.mounted /\ ~v.isLoading

\* The page-bucket map the viewer holds (the useMemo over its own state).
buckets(v) == chunksByPage(v.chunks, v.documentTotalPages)

\* The effect that keeps maxPdfPage.
maxPdfPageEffect(v) ==
    LET pages == pageKeys(v.chunks, v.documentTotalPages)
        maxPage == IF pages # {} THEN Max(pages) ELSE 0
    IN  IF maxPage > 0 THEN [v EXCEPT !.maxPdfPage = maxPage]
        ELSE IF v.documentTotalPages > 0
            THEN [v EXCEPT !.maxPdfPage = v.documentTotalPages]
            ELSE v

\* totalPages of the viewer.
totalPagesOf(v) ==
    IF v.documentTotalPages > 0 THEN v.documentTotalPages
    ELSE IF v.maxPdfPage # 0 THEN v.maxPdfPage
    ELSE Cardinality(pageKeys(v.chunks, v.documentTotalPages))

\* Mutant of highlightEffect: the page is left alone.
highlightEffect_keepsPage(a, v) == a

\* The effect on highlightedChunkId: the page follows the highlighted chunk
\* whenever that chunk is among the loaded ones.
highlightEffect(a, v) ==
    LET actualPage == pageOfChunk(v.chunks, v.documentTotalPages,
                                  a.highlightedChunkId)
    IN  IF a.highlightedChunkId # "" /\ Len(v.chunks) > 0 /\ actualPage # -1
            THEN [a EXCEPT !.pdfCurrentPage = actualPage]
            ELSE a

\* loadChunks up to its first await.
startLoad(v, documentId) ==
    [v EXCEPT !.isLoading = TRUE,
              !.started = @ + 1,
              !.loads = @ \cup {[documentId |-> documentId, pc |-> "document",
                                 serial |-> v.started + 1]}]

\* The page the effect on selectedDocumentId resets to.
firstPage(page) == 1

\* setTimeout(callback, delay) called by the viewer.
setTimeout(v, callback, delay) ==
    [v EXCEPT !.timers = @ \cup {[callback |-> callback, delay |-> delay,
                                  due |-> delay \div TimeUnit]}]

\* What a timer of the viewer does when it comes due.
timerCallback(v, t) ==
    CASE t.callback = "resumeObserver" -> [v EXCEPT !.suppressObserverRef = FALSE]
      [] t.callback = "startScroll" ->
             setTimeout(v, "resumeObserver", scrollSettleDelay)
      [] t.callback = "endCooldown" -> [v EXCEPT !.wheelCooldownRef = FALSE]

\* The dependencies of the effect that scrolls the text view to the page;
\* chunksByPage is a memo over chunks and documentTotalPages and changes
\* with them.
scrollDeps(a, v) ==
    <<a.pdfCurrentPage, a.pdfViewerMode, v.chunks, v.documentTotalPages>>

\* The effect on pdfCurrentPage: in text mode, when the page owns a chunk,
\* the observer is suppressed and the scroll to the first chunk scheduled.
scrollEffect(a, v) ==
    IF /\ a.pdfViewerMode = "text"
       /\ a.pdfCurrentPage > 0
       /\ Len(v.chunks) > 0
       /\ a.pdfCurrentPage \in pageKeys(v.chunks, v.documentTotalPages)
        THEN setTimeout([v EXCEPT !.suppressObserverRef = TRUE],
                        "startScroll", scrollDelay)
        ELSE v

\* scrollEffect as React runs it: when one of its dependencies has changed
\* since the render before.
scrollEffectOn(a0, v0, a1, v1) ==
    IF scrollDeps(a0, v0) # scrollDeps(a1, v1) THEN scrollEffect(a1, v1) ELSE v1

\* The state after the handlers have left App at `a1` and the viewer at `v1`
\* (they were `a0` and `v0`), App has rendered and the effects of
\* SourceViewer have run: the viewer is mounted or unmounted with the
\* selection, a changed selection resets the page and starts a load, the
\* page follows the highlighted chunk, and the effects on the page and on
\* maxPdfPage run for each render.
rendered(a0, v0, a1, v1) ==
    IF a1.selectedDocumentId = ""
        THEN [app |-> a1, viewer |-> viewerInit]
        ELSE LET fresh == [viewerInit EXCEPT !.mounted = TRUE]
                 w0 == IF v1.mounted THEN v0 ELSE fresh
                 w1 == IF v1.mounted THEN v1 ELSE fresh
                 changed == ~v1.mounted
                            \/ a0.selectedDocumentId # a1.selectedDocumentId
                 w2 == scrollEffectOn(a0, w0, a1, w1)
                 a2 == IF changed
                           THEN [a1 EXCEPT !.pdfCurrentPage = firstPage(@)]
                           ELSE a1
                 w3 == IF changed
                           THEN startLoad(w2, a1.selectedDocumentId)
                           ELSE w2
                 a3 == highlightEffect(a2, w3)
                 w4 == scrollEffectOn(a1, w3, a3, w3)
             IN  [app |-> a3, viewer |-> maxPdfPageEffect(w4)]

\* The state after a handler of App has left it at `a` (it was `before`).
afterRender(before, a, v) == rendered(before, v, a, v)

\* Mutant of loadFailed: the catch block resets nothing.
loadFailed_keepsChunks(v, l) ==
    [v EXCEPT !.isLoading = FALSE, !.loads = @ \ {l}, !.anyFailed = TRUE,
              !.lastLoaded = [documentId |-> l.documentId, ok |-> FALSE]]

\* The catch and finally blocks of loadChunks.
loadFailed(v, l) ==
    [v EXCEPT !.chunks = <<>>, !.documentTitle = "", !.isLoading = FALSE,
              !.loads = @ \ {l}, !.anyFailed = TRUE,
              !.lastLoaded = [documentId |-> l.documentId, ok |-> FALSE]]

\* loadChunks after getDocumentById resolved with `document`.
documentLoaded(v, l, document) ==
    IF document # noDocument
        THEN [v EXCEPT !.documentTitle = document.title,
                       !.documentTotalPages = document.totalPages,
                       !.loads = (@ \ {l}) \cup {[l EXCEPT !.pc = "chunks"]}]
        ELSE [v EXCEPT !.loads = (@ \ {l}) \cup {[l EXCEPT !.pc = "chunks"]}]

\* loadChunks after getChunksByDocument resolved with `chunks`.
chunksLoaded(v, l, chunks) ==
    [v EXCEPT !.chunks = chunks, !.isLoading = FALSE, !.loads = @ \ {l},
              !.lastLoaded = [documentId |-> l.documentId, ok |-> TRUE]]

\* Mutant of findNearestPageWithChunks: the loops run from the far end.
findNearestPageWithChunks_farthest(v, startPage, direction) ==
    LET owned == pageKeys(v.chunks, v.documentTotalPages)
        ahead == {p \in owned : p > startPage /\ p <= totalPagesOf(v)}
        behind == {p \in owned : p < startPage /\ p >= 1}
    IN  IF startPage \in owned THEN startPage
        ELSE IF direction = "next" /\ ahead # {}
            THEN Max(ahead)
        ELSE IF direction = "prev" /\ behind # {}
            THEN CHOOSE p \in behind : \A q \in behind : p <= q
        ELSE startPage

\* findNearestPageWithChunks.
findNearestPageWithChunks(v, startPage, direction) ==
    LET owned == pageKeys(v.chunks, v.documentTotalPages)
        ahead == {p \in owned : p > startPage /\ p <= totalPagesOf(v)}
        behind == {p \in owned : p < startPage /\ p >= 1}
    IN  IF startPage \in owned THEN startPage
        ELSE IF direction = "next" /\ ahead # {}
            THEN CHOOSE p \in ahead : \A q \in ahead : p <= q
        ELSE IF direction = "prev" /\ behind # {}
            THEN Max(behind)
        ELSE startPage

\* The page handlePreviousPage / handleNextPage move to.
previousTarget(a, v) ==
    findNearestPageWithChunks(v, Max2(1, a.pdfCurrentPage - 1), "prev")

nextTarget(a, v) ==
    findNearestPageWithChunks(v, Min2(totalPagesOf(v), a.pdfCurrentPage + 1), "next")

\* The page the page-number input sets for the entered value.
enteredPage(v, value) == Min2(Max2(1, value), Max2(1, totalPagesOf(v)))

\* handlePreviousPage / handleNextPage once the target is known: nothing when
\* it is the current page, else the observer is suppressed, the page passed
\* to onPdfPageChange and the observer resumed after settleDelay.
goToPage(a, v, target) ==
    IF target = a.pdfCurrentPage
        THEN [app |-> a, viewer |-> v]
        ELSE [app |-> [a EXCEPT !.pdfCurrentPage = target],
              viewer |-> setTimeout([v EXCEPT !.suppressObserverRef = TRUE,
                                              !.requestedPage = target],
                                    "resumeObserver", settleDelay)]

handlePreviousPage(a, v) == goToPage(a, v, previousTarget(a, v))

handleNextPage(a, v) == goToPage(a, v, nextTarget(a, v))

\* onChange of the page-number input.
handlePageInput(a, v, value) ==
    [app |-> [a EXCEPT !.pdfCurrentPage = enteredPage(v, value)],
     viewer |-> [v EXCEPT !.requestedPage = enteredPage(v, value)]]

\* Mutant of handleWheelInScrollArea: wheelCooldownRef is not read.
handleWheelInScrollArea_noCooldown(a, v, deltaY, atTop, atBottom) ==
    IF a.pdfViewerMode # "text"
        THEN [app |-> a, viewer |-> v]
    ELSE IF deltaY < 0 /\ atTop /\ a.pdfCurrentPage > 1
        THEN LET h == goToPage(a, [v EXCEPT !.wheelCooldownRef = TRUE],
                               previousTarget(a, v))
             IN  [app |-> h.app,
                  viewer |-> setTimeout(h.viewer, "endCooldown", wheelCooldown)]
    ELSE IF deltaY > 0 /\ atBottom /\ a.pdfCurrentPage < totalPagesOf(v)
        THEN LET h == goToPage(a, [v EXCEPT !.wheelCooldownRef = TRUE],
                               nextTarget(a, v))
             IN  [app |-> h.app,
                  viewer |-> setTimeout(h.viewer, "endCooldown", wheelCooldown)]
    ELSE [app |-> a, viewer |-> v]

\* handleWheelInScrollArea for a wheel event with this deltaY while the
\* scroll container is at its top and / or at its bottom.
handleWheelInScrollArea(a, v, deltaY, atTop, atBottom) ==
    IF a.pdfViewerMode # "text" \/ v.wheelCooldownRef
        THEN [app |-> a, viewer |-> v]
    ELSE IF deltaY < 0 /\ atTop /\ a.pdfCurrentPage > 1
        THEN LET h == handlePreviousPage(a, [v EXCEPT !.wheelCooldownRef = TRUE])
             IN  [app |-> h.app,
                  viewer |-> setTimeout(h.viewer, "endCooldown", wheelCooldown)]
    ELSE IF deltaY > 0 /\ atBottom /\ a.pdfCurrentPage < totalPagesOf(v)
        THEN LET h == handleNextPage(a, [v EXCEPT !.wheelCooldownRef = TRUE])
             IN  [app |-> h.app,
                  viewer |-> setTimeout(h.viewer, "endCooldown", wheelCooldown)]
    ELSE [app |-> a, viewer |-> v]

\* String.prototype.toLowerCase on the letters of the model.
lowerOf(c) ==
    CASE c = "A" -> "a" [] c = "B" -> "b" [] c = "C" -> "c" [] OTHER -> c

toLowerCase(cs) == [i \in 1..Len(cs) |-> lowerOf(cs[i])]

\* String.prototype.includes.
includes(cs, q) ==
    \E i \in 1..(Len(cs) + 1) :
        /\ i + Len(q) - 1 <= Len(cs)
        /\ SubSeq(cs, i, i + Len(q) - 1) = q

\* The query handleSearchSubmit looks for.
queryOf(searchText) == toLowerCase(trimChars(searchText))

\* Mutant of firstMatch: the content is compared as it is stored.
firstMatch_caseSensitive(chunks, query) ==
    LET idx == {i \in 1..Len(chunks) : includes(chunks[i].content, query)}
    IN  IF idx = {} THEN 0 ELSE CHOOSE i \in idx : \A j \in idx : i <= j

\* The index of the chunk chunks.find returns for the query (0: none).
firstMatch(chunks, query) ==
    LET idx == {i \in 1..Len(chunks) : includes(toLowerCase(chunks[i].content), query)}
    IN  IF idx = {} THEN 0 ELSE CHOOSE i \in idx : \A j \in idx : i <= j

\* handleSearchSubmit with the text of the search input.
handleSearchSubmit(a, v) ==
    LET query == queryOf(v.searchText)
        match == firstMatch(v.chunks, query)
    IN  IF query = <<>> \/ Len(v.chunks) = 0 \/ match = 0
            THEN [app |-> a, viewer |-> v]
            ELSE LET targetPage == pageOfChunk(v.chunks, v.documentTotalPages,
                                               v.chunks[match].id)
                 IN  [app |-> [a EXCEPT !.pdfCurrentPage = targetPage],
                      viewer |-> [v EXCEPT !.requestedPage = targetPage]]

\* The viewer holds no more timers than the model follows.
Bounded(v) == Cardinality(v.timers) <= MaxTimers

\* -------------------------------------------------------- TooltipProvider

\* Mutant of clearHideTimer: the timer is left alone.
clearHideTimer_keep(t) == t

\* clearTimeout(hideTimeoutRef.current) and hideTimeoutRef.current = null,
\* as showTooltip and cancelHide do when a timer is set.
clearHideTimer(t) == [t EXCEPT !.hideTimeoutRef = noTimer]

showTooltip(t, uniqueKey, content, position) ==
    LET t1 == clearHideTimer(t)
    IN  IF t.tooltipRef # uniqueKey
            THEN [t1 EXCEPT !.tooltipRef = uniqueKey,
                            !.tooltipContent = content,
                            !.tooltipPosition = position]
            ELSE t1

\* hideTooltip: the pending timer is cleared (the ref keeps the dead
\* handle); delay 0 hides at once, any other delay sets a timer whose
\* callback holds the tooltipRef of the render that created it.
hideTooltip(t, uniqueKey, delay) ==
    LET t1 == [t EXCEPT !.hideTimeoutRef.live = FALSE]
    IN  IF delay = 0
            THEN IF t.tooltipRef = uniqueKey
                     THEN [t1 EXCEPT !.tooltipRef = "", !.tooltipContent = ""]
                     ELSE t1
            ELSE [t1 EXCEPT !.hideTimeoutRef =
                     [uniqueKey |-> uniqueKey, tooltipRef |-> t.tooltipRef,
                      live |-> TRUE, set |-> TRUE]]

\* Mutant of cancelHide: the pending timer is not cleared.
cancelHide_keepsTimer(t) == t

cancelHide(t) == clearHideTimer(t)

\* The callback of the hide timer.
hideTimerCallback(t) ==
    LET h == t.hideTimeoutRef
        t1 == [t EXCEPT !.hideTimeoutRef = noTimer]
    IN  IF h.tooltipRef = h.uniqueKey
            THEN [t1 EXCEPT !.tooltipRef = "", !.tooltipContent = ""]
            ELSE t1

isTooltipVisible(t, uniqueKey) ==
    t.tooltipRef = uniqueKey /\ t.tooltipContent # ""

\* The key of the visible tooltip ("" when none is).
visibleKey(t) == IF t.tooltipContent # "" THEN t.tooltipRef ELSE ""

\* ------------------------------------------------------ the reading side

ingestVars == <<chunkVars, existing, migrateVars>>

\* Ingestion is not running.
IngestIdle ==
    /\ text = [len |-> 0, marks |-> <<>>]
    /\ totalPages = 0
    /\ proc = procIdle
    /\ produced = <<>>
    /\ existing = [pdf_chunks |-> 0, pdf_documents |-> 0]
    /\ mpc = "idle"
    /\ cl = clIdle
    /\ commitLog = <<>>
    /\ snapshots = noSnapshots
    /\ clearSuccess = FALSE
    /\ mig = migIdle
    /\ processedLog = <<>>
    /\ rejectedFiles = {}
    /\ report = noReport

\* Document "A" of the library: a record with 2 pages and three chunks that
\* carry their page.
documentA == [id |-> "A", title |-> "A", totalPages |-> 2]

chunksA ==
    <<[id |-> "a1", documentId |-> "A", page |-> 1, content |-> <<"A">>],
      [id |-> "a2", documentId |-> "A", page |-> 2, content |-> <<"a", "b">>],
      [id |-> "a3", documentId |-> "A", page |-> 2, content |-> <<"B", " ", "c">>]>>

\* Document "X" of the library: n chunks, whose pages follow a layout:
\* "none" carries no page, "all" two chunks per page, "some" a page on every
\* other chunk only.
XChunkIds ==
    <<"x1", "x2", "x3", "x4", "x5", "x6", "x7", "x8", "x9", "x10", "x11", "x12">>

Layouts == {"none", "all", "some"}

\* "gaps" carries a page on every chunk and leaves the odd pages empty.
layoutPage(layout, i) ==
    CASE layout = "none" -> 0
      [] layout = "all"  -> (i - 1) \div 2 + 1
      [] layout = "gaps" -> 2 * i
      [] OTHER           -> i % 2

\* The text of the chunks of "X", in turn.
XContents == <<<<"A">>, <<"a", "B">>, <<"b", " ", "C">>>>

documentX(pages) == [id |-> "X", title |-> "X", totalPages |-> pages]

chunksX(n, layout) ==
    [i \in 1..n |-> [id |-> XChunkIds[i], documentId |-> "X",
                     page |-> layoutPage(layout, i),
                     content |-> XContents[((i - 1) % Len(XContents)) + 1]]]

\* The entries of the source list.
SourceIds == {"A", "X"}

\* A chunk reference of a message; the fields the type does not declare
\* (id, chunk_id, title, metadata.page) are the fallbacks the click handler
\* reads.  "" and 0 stand for an absent field.
Reference(documentId, chunkId, page) ==
    [documentId |-> documentId, id |-> "", chunkId |-> chunkId, chunk_id |-> "",
     documentTitle |-> documentId, title |-> "", page |-> page, metadataPage |-> 0]

\* The message of the viewer runs: markers 1, 2 and 3 into both documents.
viewerMessage ==
    [hasReferences |-> TRUE,
     chunkReferences |-> <<Reference("A", "a2", 2), Reference("X", "x1", 0),
                           Reference("X", "x3", 2)>>,
     span |-> <<"1", " ", "2", " ", "3">>]

ViewerInit ==
    /\ IngestIdle
    /\ \E n \in 0..MaxViewerChunks, pages \in 0..MaxDocPages,
          layout \in Layouts, recorded \in BOOLEAN :
           /\ pdf_documents = IF recorded THEN <<documentA, documentX(pages)>>
                              ELSE <<documentA>>
           /\ pdf_chunks = chunksA \o chunksX(n, layout)
    /\ app = appInit
    /\ viewer = viewerInit
    /\ message = viewerMessage
    /\ dispatched = <<>>
    /\ tooltip = tooltipInit
    /\ embed = embedIdle
    /\ observers = {}

\* A click on an entry of the source list: handleSourceClick up to its
\* await of getAllDocuments.  The list is on screen while no document is
\* selected.
SourceClick ==
    /\ app.selectedDocumentId = ""
    /\ app.navigations < MaxNavigations
    /\ \E sourceId \in SourceIds \ app.sourceClicks :
           app' = [app EXCEPT !.sourceClicks = @ \cup {sourceId},
                              !.navigations = @ + 1]
    /\ UNCHANGED <<viewer, message, dispatched, tooltip, embed, observers, storeVars,
                   ingestVars>>

\* handleSourceClick after getAllDocuments settled: the matching document,
\* if any, becomes the selected one; a rejection is logged only.
SourceClickResolved ==
    /\ \E sourceId \in app.sourceClicks, ok \in BOOLEAN :
           LET matchingDoc == getDocumentById(pdf_documents, sourceId)
               a0 == [app EXCEPT !.sourceClicks = @ \ {sourceId}]
               a1 == IF ok /\ matchingDoc # noDocument
                         THEN [a0 EXCEPT !.selectedDocumentId = matchingDoc.id,
                                         !.pdfFilename = matchingDoc.id]
                         ELSE a0
               r == afterRender(app, a1, viewer)
           IN  /\ app' = r.app
               /\ viewer' = r.viewer
    /\ UNCHANGED <<message, dispatched, tooltip, embed, observers, storeVars,
                   ingestVars>>

\* A click on marker i of the bold span: handleReferenceClick of Message,
\* the event it dispatches, the listener of App, and the render that follows.
ClickMarker ==
    /\ app.navigations < MaxNavigations
    /\ strong(message).kind = "markers"
    /\ \E i \in 1..Len(strong(message).numbers) :
           LET events == handleReferenceClick(message, strong(message).numbers[i])
               a0 == [app EXCEPT !.navigations = @ + 1]
               a1 == IF events = <<>> THEN a0 ELSE onReferenceClick(a0, events[1])
               r == afterRender(app, a1, viewer)
           IN  /\ dispatched' = Append(dispatched,
                                       [referenceNumber |-> strong(message).numbers[i],
                                        events |-> events])
               /\ app' = r.app
               /\ viewer' = r.viewer
    /\ UNCHANGED <<message, tooltip, embed, observers, storeVars,
                   ingestVars>>

\* The back button or the Escape key: the selection and the highlight are
\* cleared and SourceViewer is unmounted; what its loads in flight set later
\* is lost.
CloseViewer ==
    /\ app.selectedDocumentId # ""
    /\ LET a1 == [app EXCEPT !.selectedDocumentId = "", !.highlightedChunkId = ""]
           r == afterRender(app, a1, viewer)
       IN  /\ app' = r.app
           /\ viewer' = r.viewer
    /\ UNCHANGED <<message, dispatched, tooltip, embed, observers, storeVars,
                   ingestVars>>

\* loadChunks resumes after getDocumentById settled.
LoadDocument ==
    /\ \E l \in viewer.loads, ok \in BOOLEAN :
           /\ l.pc = "document"
           /\ LET v1 == IF ok
                            THEN documentLoaded(viewer, l,
                                     getDocumentById(pdf_documents, l.documentId))
                            ELSE loadFailed(viewer, l)
                  r == rendered(app, viewer, app, v1)
              IN  /\ viewer' = r.viewer
                  /\ app' = r.app
    /\ UNCHANGED <<message, dispatched, tooltip, embed, observers, storeVars,
                   ingestVars>>

\* loadChunks resumes after getChunksByDocument settled, and returns.
LoadChunks ==
    /\ \E l \in viewer.loads, ok \in BOOLEAN :
           /\ l.pc = "chunks"
           /\ LET v1 == IF ok
                            THEN chunksLoaded(viewer, l,
                                     getChunksByDocument(pdf_chunks, l.documentId))
                            ELSE loadFailed(viewer, l)
                  r == rendered(app, viewer, app, v1)
              IN  /\ viewer' = r.viewer
                  /\ app' = r.app
    /\ UNCHANGED <<message, dispatched, tooltip, embed, observers, storeVars,
                   ingestVars>>

\* The previous-page button (disabled on page 1 and below).
PreviousPage ==
    /\ Ready(app, viewer)
    /\ app.pdfCurrentPage > 1
    /\ LET h == handlePreviousPage(app, viewer)
           r == rendered(app, viewer, h.app, h.viewer)
       IN  /\ Bounded(r.viewer)
           /\ app' = r.app
           /\ viewer' = r.viewer
    /\ UNCHANGED <<message, dispatched, tooltip, embed, observers, storeVars,
                   ingestVars>>

\* The next-page button (disabled on the last page and above).
NextPage ==
    /\ Ready(app, viewer)
    /\ app.pdfCurrentPage < totalPagesOf(viewer)
    /\ LET h == handleNextPage(app, viewer)
           r == rendered(app, viewer, h.app, h.viewer)
       IN  /\ Bounded(r.viewer)
           /\ app' = r.app
           /\ viewer' = r.viewer
    /\ UNCHANGED <<message, dispatched, tooltip, embed, observers, storeVars,
                   ingestVars>>

\* A value typed into the page-number input.
PageEntry ==
    /\ Ready(app, viewer)
    /\ \E value \in 0..(MaxDocPages + 1) :
           LET h == handlePageInput(app, viewer, value)
               r == rendered(app, viewer, h.app, h.viewer)
           IN  /\ enteredPage(viewer, value) # app.pdfCurrentPage
               /\ Bounded(r.viewer)
               /\ app' = r.app
               /\ viewer' = r.viewer
    /\ UNCHANGED <<message, dispatched, tooltip, embed, observers, storeVars,
                   ingestVars>>

\* A click on one of the chunks shown (those of the current page).
ChunkSelect ==
    /\ Ready(app, viewer)
    /\ app.pdfCurrentPage \in DOMAIN buckets(viewer)
    /\ \E k \in 1..Len(buckets(viewer)[app.pdfCurrentPage]) :
           LET chunkId == buckets(viewer)[app.pdfCurrentPage][k].id
               r == afterRender(app, [app EXCEPT !.highlightedChunkId = chunkId],
                                viewer)
           IN  /\ chunkId # app.highlightedChunkId
               /\ Bounded(r.viewer)
               /\ app' = r.app
               /\ viewer' = r.viewer
    /\ UNCHANGED <<message, dispatched, tooltip, embed, observers, storeVars,
                   ingestVars>>

\* The "whole document" button: onChunkSelect('').
ShowFullDocument ==
    /\ Ready(app, viewer)
    /\ app.highlightedChunkId # ""
    /\ app' = [app EXCEPT !.highlightedChunkId = ""]
    /\ UNCHANGED <<viewer, message, dispatched, tooltip, embed, observers, storeVars,
                   ingestVars>>

ViewerNext ==
    \/ SourceClick
    \/ SourceClickResolved
    \/ ClickMarker
    \/ CloseViewer
    \/ LoadDocument
    \/ LoadChunks
    \/ PreviousPage
    \/ NextPage

SpecViewer == ViewerInit /\ [][ViewerNext]_vars

\* One document under the viewer: the source list entry of "X" has just been
\* clicked and resolved, and no other document is opened afterwards.
EstimatorInit ==
    /\ IngestIdle
    /\ \E n \in 0..MaxChunks, pages \in 0..MaxDocPages, layout \in Layouts :
           /\ pdf_documents = <<documentA, documentX(pages)>>
           /\ pdf_chunks = chunksA \o chunksX(n, layout)
    /\ LET a1 == [appInit EXCEPT !.selectedDocumentId = "X", !.pdfFilename = "X",
                                 !.navigations = MaxNavigations]
           r == afterRender(appInit, a1, viewerInit)
       IN  /\ app = r.app
           /\ viewer = r.viewer
    /\ message = noMessage
    /\ dispatched = <<>>
    /\ tooltip = tooltipInit
    /\ embed = embedIdle
    /\ observers = {}

EstimatorNext ==
    \/ LoadDocument
    \/ LoadChunks
    \/ PreviousPage
    \/ NextPage
    \/ PageEntry
    \/ ChunkSelect
    \/ ShowFullDocument
    \/ CloseViewer

SpecEstimator == EstimatorInit /\ [][EstimatorNext]_vars

\* One document under the reader, with the clock of the viewer's timers:
\* "X" has just been opened from the source list (text view) or through a
\* citation that carries a page (native renderer).
NavigationLayouts == {"none", "all", "gaps"}

Openings == {"source", "citation"}

\* What is typed into the search input.
Queries ==
    {<<" ">>, <<" ", "C">>, <<"d">>}

navigationMessage ==
    [hasReferences |-> TRUE,
     chunkReferences |-> <<Reference("X", "x2", 2)>>,
     span |-> <<"1">>]

NavigationInit ==
    /\ IngestIdle
    /\ \E pages \in {0, MaxDocPages}, layout \in NavigationLayouts :
           /\ pdf_documents = <<documentA, documentX(pages)>>
           /\ pdf_chunks = chunksA \o chunksX(MaxViewerChunks, layout)
    /\ message = navigationMessage
    /\ tooltip = tooltipInit
    /\ embed = embedIdle
    /\ observers = {}
    /\ \E opening \in Openings :
           LET a0 == [appInit EXCEPT !.navigations = MaxNavigations]
               events == IF opening = "citation"
                             THEN handleReferenceClick(message, 1)
                             ELSE <<>>
               a1 == IF opening = "citation"
                         THEN onReferenceClick(a0, events[1])
                         ELSE [a0 EXCEPT !.selectedDocumentId = "X",
                                         !.pdfFilename = "X"]
               r == afterRender(appInit, a1, viewerInit)
           IN  /\ dispatched = IF opening = "citation"
                                   THEN <<[referenceNumber |-> 1, events |-> events]>>
                                   ELSE <<>>
               /\ app = r.app
               /\ viewer = r.viewer

\* A wheel event over the chunk list.
WheelEvent(deltaY, atTop, atBottom) ==
    /\ Ready(app, viewer)
    /\ LET h == handleWheelInScrollArea(app, viewer, deltaY, atTop, atBottom)
           r == rendered(app, viewer, h.app, h.viewer)
       IN  /\ Bounded(r.viewer)
           /\ app' = r.app
           /\ viewer' = r.viewer
    /\ UNCHANGED <<message, dispatched, tooltip, embed, observers, storeVars,
                   ingestVars>>

Wheel ==
    \E deltaY \in {-1, 1}, atTop \in BOOLEAN, atBottom \in BOOLEAN :
        WheelEvent(deltaY, atTop, atBottom)

\* A text typed into the search input and submitted.
SearchSubmit ==
    /\ Ready(app, viewer)
    /\ \E searchText \in Queries :
           LET h == handleSearchSubmit(app, [viewer EXCEPT !.searchText = searchText])
               r == rendered(app, viewer, h.app, h.viewer)
           IN  /\ Bounded(r.viewer)
               /\ app' = r.app
               /\ viewer' = r.viewer
    /\ UNCHANGED <<message, dispatched, tooltip, embed, observers, storeVars,
                   ingestVars>>

\* Time passes until the next timer of the viewer is due.
Tick ==
    /\ viewer.timers # {}
    /\ \A t \in viewer.timers : t.due > 0
    /\ LET dues == {t.due : t \in viewer.timers}
           next == CHOOSE d \in dues : \A e \in dues : d <= e
       IN  viewer' = [viewer EXCEPT
                         !.timers = {[t EXCEPT !.due = @ - next] : t \in @}]
    /\ UNCHANGED <<app, message, dispatched, tooltip, embed, observers, storeVars,
                   ingestVars>>

\* A timer of the viewer that is due runs its callback.
TimerFires ==
    /\ \E t \in viewer.timers :
           /\ t.due = 0
           /\ viewer' = timerCallback([viewer EXCEPT !.timers = @ \ {t}], t)
    /\ UNCHANGED <<app, message, dispatched, tooltip, embed, observers, storeVars,
                   ingestVars>>

NavigationNext ==
    \/ LoadDocument
    \/ LoadChunks
    \/ PreviousPage
    \/ NextPage
    \/ Wheel
    \/ Tick
    \/ TimerFires

SpecNavigation == NavigationInit /\ [][NavigationNext]_vars

\* The search of the same viewer, in the runs where no timer comes due.
SearchNext ==
    \/ LoadDocument
    \/ LoadChunks
    \/ SearchSubmit
    \/ PreviousPage
    \/ NextPage
    \/ ShowFullDocument

SpecSearch == NavigationInit /\ [][SearchNext]_vars

\* A message under the reader: every bold span up to MaxSpanLen characters
\* and a few reference lists, over a library of two documents.
Chars == Digits \cup {" ", "a"}

Spans == UNION {[1..n -> Chars] : n \in 0..MaxSpanLen}

\* References with the declared fields only, with the document id missing,
\* with the chunk id missing, and with the fallback fields only.
ReferenceLists ==
    LET r1 == Reference("A", "a1", 1)
        r2 == Reference("X", "x2", 0)
        r3 == Reference("A", "a3", 2)
        noDocumentId == [Reference("", "a2", 2) EXCEPT !.documentTitle = "A"]
        noChunkId == Reference("A", "", 1)
        fallbacks == [documentId |-> "", id |-> "X", chunkId |-> "",
                      chunk_id |-> "x1", documentTitle |-> "", title |-> "X",
                      page |-> 0, metadataPage |-> 2]
    IN  {<<>>, <<r1>>, <<r1, r2, r3>>, <<noDocumentId, fallbacks, noChunkId>>}

CitationInit ==
    /\ IngestIdle
    /\ pdf_documents = <<documentA, documentX(MaxPages)>>
    /\ pdf_chunks = chunksA \o chunksX(MaxViewerChunks, "none")
    /\ app = appInit
    /\ viewer = viewerInit
    /\ \E span \in Spans, hasReferences \in BOOLEAN, list \in ReferenceLists :
           /\ ~hasReferences => list = <<>>
           /\ message = [hasReferences |-> hasReferences,
                         chunkReferences |-> list, span |-> span]
    /\ dispatched = <<>>
    /\ tooltip = tooltipInit
    /\ embed = embedIdle
    /\ observers = {}

CitationNext ==
    \/ ClickMarker
    \/ LoadDocument
    \/ LoadChunks
    \/ CloseViewer

SpecCitation == CitationInit /\ [][CitationNext]_vars

\* The preview panel under its callers.
TooltipKeys == {"m1-1-0", "m1-2-1", "m2-1-0"}

TooltipContents == {"c1", "c2"}

TooltipPositions == {"", "p1"}

TooltipInit ==
    /\ IngestIdle
    /\ pdf_documents = <<>>
    /\ pdf_chunks = <<>>
    /\ app = appInit
    /\ viewer = viewerInit
    /\ message = noMessage
    /\ dispatched = <<>>
    /\ tooltip = tooltipInit
    /\ embed = embedIdle
    /\ observers = {}

\* What the provider remembers of a call, for the claims.
called(t, op, uniqueKey, content) ==
    [op |-> op, uniqueKey |-> uniqueKey, content |-> content,
     visibleBefore |-> visibleKey(t), timerBefore |-> t.hideTimeoutRef.live,
     count |-> t.lastCall.count + 1]

\* The key whose delayed hide is awaited after the call `op` has taken the
\* provider from t to t1.
requestedAfter(t, t1, op, uniqueKey) ==
    IF op \in {"showTooltip", "cancelHide", "handleTooltipMouseEnter"} THEN ""
    ELSE IF /\ op \in {"hideTooltip", "handleTooltipMouseLeave"}
            /\ t1.hideTimeoutRef.live
            /\ uniqueKey # ""
            /\ uniqueKey = visibleKey(t)
        THEN uniqueKey
    ELSE IF visibleKey(t1) = "" THEN ""
    ELSE t.hideRequested

\* A marker is entered: showTooltip.
ShowTooltip ==
    /\ tooltip.lastCall.count < MaxCalls
    /\ \E k \in TooltipKeys, c \in TooltipContents, pos \in TooltipPositions :
           tooltip' = [showTooltip(tooltip, k, c, pos) EXCEPT
                          !.lastCall = called(tooltip, "showTooltip", k, c),
                          !.hideRequested = ""]
    /\ UNCHANGED <<app, viewer, message, dispatched, embed, observers, storeVars,
                   ingestVars>>

\* A marker is left: hideTooltip, at once or after a delay.
HideTooltip ==
    /\ tooltip.lastCall.count < MaxCalls
    /\ \E k \in TooltipKeys, delay \in {0, leaveDelay} :
           tooltip' = [hideTooltip(tooltip, k, delay) EXCEPT
                          !.lastCall = called(tooltip, "hideTooltip", k, ""),
                          !.hideRequested =
                              requestedAfter(tooltip, hideTooltip(tooltip, k, delay),
                                             "hideTooltip", k)]
    /\ UNCHANGED <<app, viewer, message, dispatched, embed, observers, storeVars,
                   ingestVars>>

\* cancelHide called by a consumer.
CancelHide ==
    /\ tooltip.lastCall.count < MaxCalls
    /\ tooltip' = [cancelHide(tooltip) EXCEPT
                      !.lastCall = called(tooltip, "cancelHide", "", ""),
                      !.hideRequested = ""]
    /\ UNCHANGED <<app, viewer, message, dispatched, embed, observers, storeVars,
                   ingestVars>>

\* The pointer enters the panel: handleTooltipMouseEnter.
TooltipMouseEnter ==
    /\ tooltip.lastCall.count < MaxCalls
    /\ visibleKey(tooltip) # ""
    /\ tooltip' = [cancelHide(tooltip) EXCEPT
                      !.lastCall = called(tooltip, "handleTooltipMouseEnter", "", ""),
                      !.hideRequested = ""]
    /\ UNCHANGED <<app, viewer, message, dispatched, embed, observers, storeVars,
                   ingestVars>>

\* The pointer leaves the panel: handleTooltipMouseLeave.
TooltipMouseLeave ==
    /\ tooltip.lastCall.count < MaxCalls
    /\ visibleKey(tooltip) # ""
    /\ tooltip' = [hideTooltip(tooltip, tooltip.tooltipRef, leaveDelay) EXCEPT
                      !.lastCall = called(tooltip, "handleTooltipMouseLeave",
                                          tooltip.tooltipRef, ""),
                      !.hideRequested =
                          requestedAfter(tooltip,
                                         hideTooltip(tooltip, tooltip.tooltipRef,
                                                     leaveDelay),
                                         "handleTooltipMouseLeave",
                                         tooltip.tooltipRef)]
    /\ UNCHANGED <<app, viewer, message, dispatched, embed, observers, storeVars,
                   ingestVars>>

\* The hide timer expires.
HideTimerFires ==
    /\ tooltip.hideTimeoutRef.live
    /\ tooltip' = [hideTimerCallback(tooltip) EXCEPT
                      !.lastCall = [called(tooltip, "timer", "", "") EXCEPT
                                       !.count = tooltip.lastCall.count],
                      !.hideRequested =
                          requestedAfter(tooltip, hideTimerCallback(tooltip),
                                         "timer", "")]
    /\ UNCHANGED <<app, viewer, message, dispatched, embed, observers, storeVars,
                   ingestVars>>

TooltipNext ==
    \/ ShowTooltip
    \/ HideTooltip
    \/ CancelHide
    \/ TooltipMouseEnter
    \/ TooltipMouseLeave
    \/ HideTimerFires

SpecTooltip == TooltipInit /\ [][TooltipNext]_vars

\* The same panel when a hide timer that stays pending does expire.
SpecTooltipFair == SpecTooltip /\ WF_vars(HideTimerFires)

\* ------------------------------------------------------ the PDF view

\* Most pages of a PDF file, and the largest page the parent asks for.
MaxPdfPages == 4

\* window.location.origin, as the characters of a URL are written here: one
\* element for the scheme, one for each further part.
origin == <<"http://", "o">>

\* The pdfUrl values the parent passes: none, a bare name, "./" and "/"
\* paths, an absolute URL, and the path of a file that is not served.
PdfUrls ==
    { <<>>, <<"a">>, <<".", "/", "a">>, <<"/", "a">>,
      <<"http://", "h", "/", "a">>, <<"/", "gone">> }

\* The pages the parent passes as currentPage.
PdfPages == 0..(MaxPdfPages + 1)

\* A file that PDF.js can load, and its pages.
Loadable(url) == url # <<>> /\ url[Len(url)] # "gone"

\* s.startsWith(prefix).
startsWith(s, prefix) ==
    Len(s) >= Len(prefix) /\ SubSeq(s, 1, Len(prefix)) = prefix

\* The useMemo that makes pdfUrl absolute.
absolutePdfUrl(pdfUrl) ==
    IF pdfUrl = <<>> THEN <<>>
    ELSE IF startsWith(pdfUrl, <<"http://">>) \/ startsWith(pdfUrl, <<"https://">>)
        THEN pdfUrl
    ELSE IF startsWith(pdfUrl, <<".", "/">>) THEN origin \o Tail(pdfUrl)
    ELSE IF startsWith(pdfUrl, <<"/">>) THEN origin \o pdfUrl
    ELSE origin \o <<"/">> \o pdfUrl

\* The effect on [absolutePdfUrl, currentPage].
urlEffect(e) ==
    IF absolutePdfUrl(e.pdfUrl) # <<>>
        THEN [e EXCEPT !.loading = TRUE, !.error = "", !.numPages = 0,
                       !.pageNumber = e.currentPage]
        ELSE [e EXCEPT !.loading = FALSE, !.error = "no url"]

\* The effect on [currentPage, numPages], run with the numPages it closed over.
pageEffect(e, numPages) ==
    IF e.currentPage > 0 /\ e.currentPage <= numPages
        THEN [e EXCEPT !.pageNumber = e.currentPage]
    ELSE IF e.currentPage > 0 /\ numPages = 0
        THEN [e EXCEPT !.pageNumber = e.currentPage]
    ELSE e

\* The component's render returns the header and the <Document>: neither the
\* loading text nor the error text is returned before.
showsDocument(e) == e.mounted /\ ~(e.loading /\ e.error = "") /\ e.error = ""

\* The <Document key={absolutePdfUrl}> after a render: it exists only while
\* rendered with a URL, and a new one starts loading its file.
documentAfter(e0, e) ==
    IF ~(showsDocument(e) /\ absolutePdfUrl(e.pdfUrl) # <<>>) THEN "none"
    ELSE IF \/ e0.document = "none"
            \/ absolutePdfUrl(e0.pdfUrl) # absolutePdfUrl(e.pdfUrl)
        THEN "loading"
    ELSE e.document

\* The render that follows a change from e0 to e: the effects whose
\* dependencies changed, in the order of the source, then the effect on
\* numPages once more if they changed it.
embedRendered(e0, e) ==
    LET first == ~e0.mounted
        a == IF \/ first
                \/ absolutePdfUrl(e0.pdfUrl) # absolutePdfUrl(e.pdfUrl)
                \/ e0.currentPage # e.currentPage
                THEN urlEffect(e) ELSE e
        b == IF first \/ e0.currentPage # e.currentPage \/ e0.numPages # e.numPages
                THEN pageEffect(a, e.numPages) ELSE a
        c == IF b.numPages # e.numPages THEN pageEffect(b, b.numPages) ELSE b
    IN  [c EXCEPT !.document = documentAfter(e0, c)]

\* The useState initial values, for the props given.
embedMounted(pdfUrl, currentPage) ==
    [mounted |-> TRUE, pdfUrl |-> pdfUrl, currentPage |-> currentPage,
     numPages |-> 0, pageNumber |-> currentPage, loading |-> TRUE,
     error |-> "", document |-> "none", lastOp |-> "mount"]

\* onDocumentLoadSuccess.
onDocumentLoadSuccess(e, numPages) ==
    [e EXCEPT !.numPages = numPages, !.loading = FALSE, !.error = "",
              !.pageNumber = IF e.currentPage > 0 /\ e.currentPage <= numPages
                                 THEN e.currentPage ELSE 1,
              !.document = "loaded"]

\* onDocumentLoadError.
onDocumentLoadError(e) ==
    [e EXCEPT !.error = "load failed", !.loading = FALSE, !.document = "failed"]

\* The onClick of the retry button.
retry(e) == [e EXCEPT !.error = "", !.loading = TRUE]

\* The PDF view under its parent: the text view is on screen.
EmbedInit ==
    /\ IngestIdle
    /\ pdf_documents = <<>>
    /\ pdf_chunks = <<>>
    /\ app = appInit
    /\ viewer = viewerInit
    /\ message = noMessage
    /\ dispatched = <<>>
    /\ tooltip = tooltipInit
    /\ embed = embedIdle
    /\ observers = {}

\* The parent switches to the PDF view: EmbedPdfViewer mounts.
EmbedMount ==
    /\ ~embed.mounted
    /\ \E pdfUrl \in PdfUrls, currentPage \in PdfPages :
          embed' = embedRendered(embed, embedMounted(pdfUrl, currentPage))
    /\ UNCHANGED <<app, viewer, message, dispatched, tooltip, observers, storeVars,
                   ingestVars>>

\* The parent switches back to the text view.
EmbedUnmount ==
    /\ embed.mounted
    /\ embed' = embedIdle
    /\ UNCHANGED <<app, viewer, message, dispatched, tooltip, observers, storeVars,
                   ingestVars>>

\* The parent passes another currentPage.
EmbedPage ==
    /\ embed.mounted
    /\ \E currentPage \in PdfPages \ {embed.currentPage} :
          embed' = embedRendered(embed, [embed EXCEPT !.currentPage = currentPage,
                                                      !.lastOp = "page"])
    /\ UNCHANGED <<app, viewer, message, dispatched, tooltip, observers, storeVars,
                   ingestVars>>

\* The parent passes another pdfUrl.
EmbedUrl ==
    /\ embed.mounted
    /\ \E pdfUrl \in PdfUrls \ {embed.pdfUrl} :
          embed' = embedRendered(embed, [embed EXCEPT !.pdfUrl = pdfUrl,
                                                      !.lastOp = "url"])
    /\ UNCHANGED <<app, viewer, message, dispatched, tooltip, observers, storeVars,
                   ingestVars>>

\* The retry button of the error text is clicked.
EmbedRetry ==
    /\ embed.mounted
    /\ embed.error # ""
    /\ embed' = embedRendered(embed, [retry(embed) EXCEPT !.lastOp = "retry"])
    /\ UNCHANGED <<app, viewer, message, dispatched, tooltip, observers, storeVars,
                   ingestVars>>

\* PDF.js has fetched, or failed to fetch, the file of the address shown:
\* the <Document> that waits for it, if there is one, calls its handler.
PdfJs ==
    /\ embed.mounted
    /\ absolutePdfUrl(embed.pdfUrl) # <<>>
    /\ embed.document # "loaded" /\ embed.document # "failed"
    /\ embed' =
          IF embed.document # "loading" THEN embed
          ELSE IF Loadable(embed.pdfUrl)
              THEN embedRendered(embed, onDocumentLoadSuccess(embed, MaxPdfPages))
          ELSE embedRendered(embed, onDocumentLoadError(embed))
    /\ UNCHANGED <<app, viewer, message, dispatched, tooltip, observers, storeVars,
                   ingestVars>>

EmbedNext ==
    \/ EmbedMount
    \/ EmbedUnmount
    \/ EmbedPage
    \/ EmbedUrl
    \/ EmbedRetry
    \/ PdfJs

SpecEmbed == EmbedInit /\ [][EmbedNext]_vars

\* The same view when PDF.js does answer the <Document> that waits for it.
SpecEmbedFair == SpecEmbed /\ WF_vars(PdfJs)

\* ------------------------------------------- the observer of the text view

\* The IntersectionObserver the effect makes in a render on `page`: its
\* callback closes over that page, and its observe calls are deferred
\* (requestAnimationFrame, then setTimeout 0).  targets is the page whose
\* chunk elements it observes (0: none on screen), timeout the page its
\* pending timer will pass to onPdfPageChange (0: no timer).
newObserver(page) ==
    [page |-> page, live |-> TRUE, phase |-> "deferred", targets |-> 0,
     timeout |-> 0, due |-> 0]

\* The guard of the observer effect: the text view with its scroll container
\* and chunks is on screen.
observes(a, v) == Ready(a, v) /\ a.pdfViewerMode = "text" /\ Len(v.chunks) > 0

\* An observer that is left behind and can never act again.
inert(o) ==
    ~o.live /\ o.phase = "observing" /\ o.targets = 0 /\ o.timeout = 0

\* The cleanup of the effect: clearTimeout(timeoutId), observer.disconnect().
\* The deferred observe calls are not cancelled.
observerCleanup(o) ==
    [o EXCEPT !.live = FALSE, !.timeout = 0, !.due = 0, !.targets = 0]

\* One render of SourceViewer on page a.pdfCurrentPage: the chunk elements
\* of any other page leave the screen, the cleanup of the effect runs for
\* the observer of the render before, and the effect makes the next one.
\* onPdfPageChange is a new function in every render of App, so the effect
\* runs in each.
observerEffect(obs, a, v) ==
    LET shown == {IF o.targets # 0 /\ (o.targets # a.pdfCurrentPage \/ ~observes(a, v))
                      THEN [o EXCEPT !.targets = 0] ELSE o : o \in obs}
        cleaned == {IF o.live THEN observerCleanup(o) ELSE o : o \in shown}
    IN  {o \in cleaned : ~inert(o)}
            \cup (IF observes(a, v) THEN {newObserver(a.pdfCurrentPage)} ELSE {})

\* The observers after the renders of rendered(a0, v0, a1, v1): the one that
\* follows the handlers and, when the page follows the highlighted chunk
\* in its effects, the one after.
observersAfter(obs, a0, v0, a1, v1) ==
    LET r == rendered(a0, v0, a1, v1)
        changed == ~v1.mounted \/ a0.selectedDocumentId # a1.selectedDocumentId
        a2 == IF changed THEN [a1 EXCEPT !.pdfCurrentPage = firstPage(@)] ELSE a1
        first == observerEffect(obs, a2, r.viewer)
    IN  IF r.app.pdfCurrentPage = a2.pdfCurrentPage THEN first
        ELSE observerEffect(first, r.app, r.viewer)

\* The deferred observeChunks of an observer: it observes the chunk
\* elements chunkRefs holds then, those of the page on screen.
observeChunks(o, a, v) ==
    [o EXCEPT !.phase = "observing",
              !.targets = IF /\ observes(a, v)
                             /\ a.pdfCurrentPage \in pageKeys(v.chunks, v.documentTotalPages)
                              THEN a.pdfCurrentPage ELSE 0]

\* The callback of an observer for the entry of its most visible chunk:
\* nothing while suppressObserverRef is set or when the page of the chunk
\* is the page the callback closed over, else the timer is set anew.
observerCallback(o, v, chunkId) ==
    LET actualPage == pageOfChunk(v.chunks, v.documentTotalPages, chunkId)
    IN  IF v.suppressObserverRef \/ actualPage = -1 \/ actualPage = o.page
            THEN o
            ELSE [o EXCEPT !.timeout = actualPage,
                           !.due = observerDebounce \div TimeUnit]

\* No observe call is waiting for the next frame.
NoDeferred == \A o \in observers : o.phase # "deferred"

\* The message of the observer runs: a citation of "X" without a page.
observerMessage ==
    [hasReferences |-> TRUE,
     chunkReferences |-> <<Reference("X", "x3", 0)>>,
     span |-> <<"1">>]

\* One document under the reader in the text view: "X" has just been opened
\* from the source list or through a citation that carries no page.
ObserverInit ==
    /\ IngestIdle
    /\ \E pages \in {0, MaxDocPages}, layout \in {"all", "gaps"} :
           /\ pdf_documents = <<documentA, documentX(pages)>>
           /\ pdf_chunks = chunksA \o chunksX(MaxViewerChunks, layout)
    /\ message = observerMessage
    /\ tooltip = tooltipInit
    /\ embed = embedIdle
    /\ observers = {}
    /\ \E opening \in Openings :
           LET a0 == [appInit EXCEPT !.navigations = MaxNavigations]
               events == IF opening = "citation"
                             THEN handleReferenceClick(message, 1)
                             ELSE <<>>
               a1 == IF opening = "citation"
                         THEN onReferenceClick(a0, events[1])
                         ELSE [a0 EXCEPT !.selectedDocumentId = "X",
                                         !.pdfFilename = "X"]
               r == afterRender(appInit, a1, viewerInit)
           IN  /\ dispatched = IF opening = "citation"
                                   THEN <<[referenceNumber |-> 1, events |-> events]>>
                                   ELSE <<>>
               /\ app = r.app
               /\ viewer = r.viewer

\* loadChunks returns with the chunks; the text view renders.
ObservedLoadChunks ==
    /\ \E l \in viewer.loads :
           /\ l.pc = "chunks"
           /\ LET v1 == chunksLoaded(viewer, l,
                                     getChunksByDocument(pdf_chunks, l.documentId))
                  r == rendered(app, viewer, app, v1)
              IN  /\ viewer' = r.viewer
                  /\ app' = r.app
                  /\ observers' = observersAfter(observers, app, viewer, app, v1)
    /\ UNCHANGED <<message, dispatched, tooltip, embed, storeVars, ingestVars>>

\* The previous-page and next-page buttons, with the observers of the
\* renders they cause.
ObservedPageButton ==
    /\ Ready(app, viewer)
    /\ NoDeferred
    /\ \E h \in {handlePreviousPage(app, viewer), handleNextPage(app, viewer)} :
           LET r == rendered(app, viewer, h.app, h.viewer)
           IN  /\ h.app # app
               /\ Bounded(r.viewer)
               /\ app' = r.app
               /\ viewer' = r.viewer
               /\ observers' = observersAfter(observers, app, viewer, h.app, h.viewer)
    /\ UNCHANGED <<message, dispatched, tooltip, embed, storeVars, ingestVars>>

\* The "whole document" button, with the render of App it causes.
ObservedShowFullDocument ==
    /\ Ready(app, viewer)
    /\ NoDeferred
    /\ app.highlightedChunkId # ""
    /\ app' = [app EXCEPT !.highlightedChunkId = ""]
    /\ observers' = observersAfter(observers, app, viewer, app', viewer)
    /\ UNCHANGED <<viewer, message, dispatched, tooltip, embed, storeVars, ingestVars>>

\* The next frame: a deferred observeChunks runs.
ObserveChunks ==
    /\ \E o \in observers :
           /\ o.phase = "deferred"
           /\ observers' = {p \in (observers \ {o}) \cup {observeChunks(o, app, viewer)} :
                               ~inert(p)}
    /\ UNCHANGED <<app, viewer, message, dispatched, tooltip, embed, storeVars,
                   ingestVars>>

\* The reader scrolls the chunk list: an observer is called with the entry
\* of a chunk on screen.
Intersection ==
    /\ observes(app, viewer)
    /\ NoDeferred
    /\ \E o \in observers, i \in 1..Len(viewer.chunks) :
           /\ o.phase = "observing"
           /\ o.targets = app.pdfCurrentPage
           /\ pageNum(viewer.chunks, viewer.documentTotalPages, i) = app.pdfCurrentPage
           /\ observerCallback(o, viewer, viewer.chunks[i].id) # o
           /\ observers' = (observers \ {o})
                               \cup {observerCallback(o, viewer, viewer.chunks[i].id)}
    /\ UNCHANGED <<app, viewer, message, dispatched, tooltip, embed, storeVars,
                   ingestVars>>

\* The timer of an observer comes due: onPdfPageChange(actualPage).
DebounceFires ==
    /\ \E o \in observers :
           /\ o.timeout # 0
           /\ o.due = 0
           /\ LET rest == {p \in (observers \ {o})
                                    \cup {[o EXCEPT !.timeout = 0]} : ~inert(p)}
                  a1 == [app EXCEPT !.pdfCurrentPage = o.timeout]
                  r == rendered(app, viewer, a1, viewer)
              IN  /\ Bounded(r.viewer)
                  /\ app' = r.app
                  /\ viewer' = r.viewer
                  /\ observers' = IF a1 = app THEN rest
                                  ELSE observersAfter(rest, app, viewer, a1, viewer)
    /\ UNCHANGED <<message, dispatched, tooltip, embed, storeVars, ingestVars>>

\* Time passes until the next timer of the viewer or of an observer is due.
ObservedTick ==
    /\ NoDeferred
    /\ LET waiting == {o \in observers : o.timeout # 0}
           dues == {t.due : t \in viewer.timers} \cup {o.due : o \in waiting}
       IN  /\ dues # {}
           /\ \A d \in dues : d > 0
           /\ LET next == CHOOSE d \in dues : \A e \in dues : d <= e
              IN  /\ viewer' = [viewer EXCEPT
                                   !.timers = {[t EXCEPT !.due = @ - next] : t \in @}]
                  /\ observers' = {IF o.timeout # 0 THEN [o EXCEPT !.due = @ - next]
                                       ELSE o : o \in observers}
    /\ UNCHANGED <<app, message, dispatched, tooltip, embed, storeVars, ingestVars>>

ObserverNext ==
    \/ LoadDocument
    \/ ObservedLoadChunks
    \/ ObservedPageButton
    \/ ObservedShowFullDocument
    \/ ObserveChunks
    \/ Intersection
    \/ DebounceFires
    \/ ObservedTick
    \/ TimerFires

SpecObserver == ObserverInit /\ [][ObserverNext]_vars

\* ------------------------------------------------- the page-number input

\* The number NaN, which no page arithmetic of the model produces.
NaN == 0 - 1000

\* Math.max and Math.min of JavaScript.
jsMax(a, b) == IF a = NaN \/ b = NaN THEN NaN ELSE Max2(a, b)

jsMin(a, b) == IF a = NaN \/ b = NaN THEN NaN ELSE Min2(a, b)

\* The value of the digits a text starts with (`acc` so far), as parseInt
\* reads them: up to the first character that is no digit.
RECURSIVE leadingDigits(_, _)
leadingDigits(cs, acc) ==
    IF cs = <<>> \/ Head(cs) \notin Digits THEN acc
    ELSE leadingDigits(Tail(cs), acc * 10 + digitValue(Head(cs)))

\* parseInt(text, 10): an optional sign, then the leading digits; NaN when
\* there is none.
parseInt(cs) ==
    LET negative == cs # <<>> /\ Head(cs) = "-"
        rest == IF negative THEN Tail(cs) ELSE cs
    IN  IF rest = <<>> \/ Head(rest) \notin Digits THEN NaN
        ELSE IF negative THEN 0 - leadingDigits(rest, 0)
        ELSE leadingDigits(rest, 0)

\* The values a number input can hand to onChange: the empty text (what is
\* typed is no number) or a valid floating-point number.
PageInputs ==
    { <<>>, <<"0">>, <<"1">>, <<"2">>, <<"3">>, <<"1", "0">>, <<"-", "2">>,
      <<"2", ".", "1">>, <<".", "2">> }

\* onChange of the page-number input, from e.target.value.
handlePageChange(a, v, value) ==
    LET n == parseInt(IF value = <<>> THEN <<"1">> ELSE value)
        page == jsMin(jsMax(1, n), Max2(1, totalPagesOf(v)))
    IN  [app |-> [a EXCEPT !.pdfCurrentPage = page],
         viewer |-> [v EXCEPT !.requestedPage = page]]

\* A text typed into the page-number input.
PageTyped ==
    /\ Ready(app, viewer)
    /\ app.pdfCurrentPage # NaN
    /\ \E value \in PageInputs :
           LET h == handlePageChange(app, viewer, value)
               r == rendered(app, viewer, h.app, h.viewer)
           IN  /\ h.app # app
               /\ Bounded(r.viewer)
               /\ app' = r.app
               /\ viewer' = r.viewer
    /\ UNCHANGED <<message, dispatched, tooltip, embed, observers, storeVars,
                   ingestVars>>

\* The page buttons while the page is a number (with NaN the handlers pass
\* NaN on, and the runs are not followed further).
PagerPrevious == app.pdfCurrentPage # NaN /\ PreviousPage

PagerNext == app.pdfCurrentPage # NaN /\ NextPage

PagerSteps ==
    \/ LoadDocument
    \/ LoadChunks
    \/ PagerPrevious
    \/ PagerNext
    \/ PageTyped
    \/ ChunkSelect
    \/ ShowFullDocument

\* One document under the reader, as in SpecEstimator, with the texts typed
\* into the page-number input.
SpecPager == EstimatorInit /\ [][PagerSteps]_vars

\* ------------------------------------------------ claims on chunksByPage

\* The chunk at 1-based position i of the loaded collection is in bucket p.
InBucket(i, p) ==
    /\ p \in DOMAIN buckets(viewer)
    /\ \E k \in 1..Len(buckets(viewer)[p]) :
           buckets(viewer)[p][k] = viewer.chunks[i]

\* C11: when no loaded chunk carries a page, the chunk at 0-based index i of
\* the N loaded ones is put on page min(P, floor(i / N * P) + 1) if the
\* document's totalPages P is positive and on page floor(i / 3) + 1 if P is
\* 0; with N = 10 and P = 5 every page 1..5 holds two consecutive chunks.
C11_EstimatedPages ==
    allPagesZero(viewer.chunks) =>
        LET N == Len(viewer.chunks)
            P == viewer.documentTotalPages
        IN  /\ \A i \in 0..(N - 1) :
                   InBucket(i + 1, IF P > 0 THEN Min2(P, (i * P) \div N + 1)
                                   ELSE i \div 3 + 1)
            /\ (N = 10 /\ P = 5) =>
                   /\ DOMAIN buckets(viewer) = 1..5
                   /\ \A p \in 1..5 :
                          buckets(viewer)[p] =
                              <<viewer.chunks[2 * p - 1], viewer.chunks[2 * p]>>

\* Ten chunks without a page are loaded for a document of five pages.
C11_TenChunksFivePages ==
    /\ Ready(app, viewer)
    /\ allPagesZero(viewer.chunks)
    /\ Len(viewer.chunks) = 10
    /\ viewer.documentTotalPages = 5

\* C12: every key of the page-bucket map is a page number from 1 up, also
\* when only some of the loaded chunks carry a page.
C12_BucketKeysAreOneBased ==
    \A p \in DOMAIN buckets(viewer) : p >= 1

\* The number of chunks the estimator puts on page p when only the first n
\* of the loaded chunks are there.
CountOnPage(n, p) ==
    LET b == chunksByPage(SubSeq(viewer.chunks, 1, n), viewer.documentTotalPages)
    IN  IF p \in DOMAIN b THEN Len(b[p]) ELSE 0

\* C13: with no loaded chunk carrying a page and totalPages P > 0, no page
\* of 1..P holds fewer chunks for N chunks than for N - 1, and no chunk is
\* put on a page above P.
C13_CountsGrowWithChunkCount ==
    (allPagesZero(viewer.chunks) /\ viewer.documentTotalPages > 0) =>
        LET N == Len(viewer.chunks)
            P == viewer.documentTotalPages
        IN  /\ \A p \in 1..P : N > 1 => CountOnPage(N - 1, p) <= CountOnPage(N, p)
            /\ \A p \in DOMAIN buckets(viewer) : p <= P

\* The number of chunks the estimator puts on the pages 1..p when only the
\* first n of the loaded chunks are there.
CountUpToPage(n, p) ==
    LET ps == [i \in 1..n |->
                  pageNum(SubSeq(viewer.chunks, 1, n), viewer.documentTotalPages, i)]
    IN  Cardinality({i \in 1..n : ps[i] <= p})

\* C13 (amended): with no loaded chunk carrying a page and totalPages P > 0,
\* every chunk is put on a page of 1..P, a later chunk is never put on an
\* earlier page, and for every p of 1..P the number of chunks on the pages
\* 1..p is not smaller for N chunks than for N - 1.
C13_PagesWithinTotalAndOrdered ==
    (allPagesZero(viewer.chunks) /\ viewer.documentTotalPages > 0) =>
        LET N == Len(viewer.chunks)
            P == viewer.documentTotalPages
        IN  /\ \A p \in DOMAIN buckets(viewer) : p >= 1 /\ p <= P
            /\ \A i \in 1..N : \A j \in i..N :
                   pageNum(viewer.chunks, P, i) <= pageNum(viewer.chunks, P, j)
            /\ \A p \in 1..P :
                   N > 1 => CountUpToPage(N - 1, p) <= CountUpToPage(N, p)

\* Three chunks without a page are loaded for a document of five pages: the
\* third page holds a chunk for two chunks and none for three.
C13_ThirdPageEmptied ==
    /\ Ready(app, viewer)
    /\ allPagesZero(viewer.chunks)
    /\ Len(viewer.chunks) = 3
    /\ viewer.documentTotalPages = 5
    /\ CountOnPage(2, 3) = 1
    /\ CountOnPage(3, 3) = 0

\* ----------------------------------------------- claims on the viewer

\* This step ends load l of the mounted viewer (it returns or it fails).
Completes(l) ==
    /\ l \in viewer.loads
    /\ viewer'.mounted
    /\ \A m \in viewer'.loads : m.serial # l.serial

\* C14: when the load of the selected document D returns, the page-bucket
\* map of the viewer is the estimator applied to D's chunks and D's own
\* totalPages (0 without a document record), whatever was viewed before.
C14_BucketsOfSelectedDocument ==
    [][\A l \in viewer.loads :
           (/\ Completes(l)
            /\ l.documentId = app.selectedDocumentId
            /\ viewer'.lastLoaded = [documentId |-> l.documentId, ok |-> TRUE])
           => buckets(viewer') =
                  chunksByPage(getChunksByDocument(pdf_chunks, l.documentId),
                               getDocumentById(pdf_documents, l.documentId).totalPages)
      ]_vars

\* C20: a step that selects a document without a highlighted chunk leaves
\* the viewer loading; the step that ends the load of the selected document,
\* with no chunk highlighted, leaves it ready on page 1.
C20_LoadingThenReadyOnFirstPage ==
    [][/\ (/\ app'.selectedDocumentId # app.selectedDocumentId
           /\ app'.selectedDocumentId # ""
           /\ app'.highlightedChunkId = "") => viewer'.isLoading
       /\ \A l \in viewer.loads :
              (/\ Completes(l)
               /\ l.documentId = app.selectedDocumentId
               /\ app.highlightedChunkId = "")
              => (~viewer'.isLoading /\ app'.pdfCurrentPage = 1)
      ]_vars

\* --------------------------------------------- claims on the markers

\* The trimmed text of the span is not empty and holds digits and
\* whitespace only.
DigitsAndSpaces(m) ==
    LET t == trimChars(m.span)
    IN  t # <<>> /\ \A i \in 1..Len(t) : t[i] \in Digits \cup Whitespace

\* C15: the bold span is rendered as a group of markers exactly when the
\* message has chunkReferences and the trimmed span is a non-empty text of
\* digits and whitespace; otherwise it is rendered as emphasis.
C15_MarkersIffNumberGroup ==
    /\ strong(message).kind = "markers"
           <=> (message.hasReferences /\ DigitsAndSpaces(message))
    /\ strong(message).kind # "markers" => strong(message).kind = "emphasis"

\* A group of two markers is on screen and one of them has been clicked.
C15_GroupOfTwoClicked ==
    /\ strong(message).kind = "markers"
    /\ Len(strong(message).numbers) = 2
    /\ Len(dispatched) > 0

\* C16: the activation of marker k, 1 <= k <= len(R), resolves to R[k-1]:
\* an event it dispatches carries the ids, title and page read from that
\* reference, which are its documentId, chunkId, documentTitle and page
\* when the reference has them.
C16_MarkerResolvesToItsReference ==
    \A j \in 1..Len(dispatched) :
        LET k == dispatched[j].referenceNumber
            R == message.chunkReferences
        IN  (k >= 1 /\ k <= Len(R)) =>
                /\ dispatched[j].events \in {<<>>, <<detailOf(R[k])>>}
                /\ (R[k].documentId # "" /\ R[k].chunkId # "") =>
                       /\ Len(dispatched[j].events) = 1
                       /\ dispatched[j].events[1].documentId = R[k].documentId
                       /\ dispatched[j].events[1].chunkId = R[k].chunkId
                       /\ R[k].documentTitle # "" =>
                              dispatched[j].events[1].title = R[k].documentTitle
                       /\ R[k].page # 0 =>
                              dispatched[j].events[1].page = R[k].page

\* With three references and the span "1 3", markers 1 and 3 have been
\* activated and resolved to the first and the third reference.
C16_FirstAndThirdResolved ==
    /\ Len(message.chunkReferences) = 3
    /\ message.span = <<"1", " ", "3">>
    /\ Len(dispatched) = 2
    /\ dispatched[1] = [referenceNumber |-> 1,
                        events |-> <<detailOf(message.chunkReferences[1])>>]
    /\ dispatched[2] = [referenceNumber |-> 3,
                        events |-> <<detailOf(message.chunkReferences[3])>>]
    /\ message.chunkReferences[1].documentId = "A"
    /\ message.chunkReferences[3].chunkId = "a3"

\* C17: no marker is rendered for a number of the group below 1 or above
\* chunkReferences.length.
C17_NoMarkerOutOfRange ==
    strong(message).kind = "markers" =>
        \A i \in 1..Len(strong(message).numbers) :
            /\ strong(message).numbers[i] >= 1
            /\ strong(message).numbers[i] <= Len(message.chunkReferences)

\* The navigation state of App and the whole state of the viewer.
Navigation(a, v) ==
    <<a.selectedDocumentId, a.highlightedChunkId, a.pdfViewerMode,
      a.pdfCurrentPage, a.pdfFilename, v>>

\* C18: the activation of a marker in range dispatches a referenceClick
\* event exactly when the document id and the chunk id read from the
\* reference (fallbacks included) are both non-empty; an activation that
\* dispatches nothing changes nothing in App's navigation state or in the
\* viewer.
C18_EventIffBothIds ==
    [][Len(dispatched') = Len(dispatched) + 1 =>
           LET e == dispatched'[Len(dispatched')]
               k == e.referenceNumber
               R == message.chunkReferences
           IN  /\ (k >= 1 /\ k <= Len(R)) =>
                      (Len(e.events) = 1
                           <=> (/\ Or(R[k].documentId, R[k].id) # ""
                                /\ Or(R[k].chunkId, R[k].chunk_id) # ""))
               /\ e.events = <<>> =>
                      Navigation(app', viewer') = Navigation(app, viewer)
      ]_vars

\* A marker whose reference has no document id has been activated while a
\* document was open, and one whose ids come from the fallback fields has
\* dispatched an event.
C18_SuppressedAndFallback ==
    /\ Len(dispatched) = 2
    /\ dispatched[1].referenceNumber = 2
    /\ Len(dispatched[1].events) = 1
    /\ dispatched[2].referenceNumber = 1
    /\ message.chunkReferences[1].documentId = ""
    /\ message.chunkReferences[1].id = ""
    /\ dispatched[2].events = <<>>
    /\ viewer.mounted

\* --------------------------------------------- claims on the preview panel

\* C19: at most one key is visible; after showTooltip(k2, c2) with k2 other
\* than the key visible before the call, k2 is visible with content c2 and
\* no hide timer is pending.
C19_OneTooltipSuperseded ==
    /\ Cardinality({k \in TooltipKeys : isTooltipVisible(tooltip, k)}) <= 1
    /\ (/\ tooltip.lastCall.op = "showTooltip"
        /\ tooltip.lastCall.uniqueKey # tooltip.lastCall.visibleBefore) =>
           /\ isTooltipVisible(tooltip, tooltip.lastCall.uniqueKey)
           /\ tooltip.tooltipContent = tooltip.lastCall.content
           /\ ~tooltip.hideTimeoutRef.live
           /\ ~tooltip.hideTimeoutRef.set

\* showTooltip has replaced a visible tooltip whose hide timer was pending.
C19_SupersededWhileHiding ==
    /\ tooltip.lastCall.op = "showTooltip"
    /\ tooltip.lastCall.visibleBefore # ""
    /\ tooltip.lastCall.visibleBefore # tooltip.lastCall.uniqueKey
    /\ tooltip.lastCall.timerBefore

\* --------------------------------------------- claims on the citations

\* C21: on a referenceClick event (its documentId and chunkId are not
\* empty) selectedDocumentId and highlightedChunkId become the ids of the
\* event, and the view mode becomes "pdf" if the event carries a page above
\* 0 and "text" otherwise.
C21_ReferenceClickSetsSelection ==
    [][Len(dispatched') = Len(dispatched) + 1 =>
           LET events == dispatched'[Len(dispatched')].events
           IN  events # <<>> =>
                   /\ events[1].documentId # "" /\ events[1].chunkId # ""
                   /\ app'.selectedDocumentId = events[1].documentId
                   /\ app'.highlightedChunkId = events[1].chunkId
                   /\ app'.pdfViewerMode =
                          IF events[1].page > 0 THEN "pdf" ELSE "text"
      ]_vars

\* An event with a page has switched to the native renderer and a later
\* event without a page, into another document, back to the text view.
C21_PdfThenText ==
    /\ Len(dispatched) = 2
    /\ dispatched[1].events # <<>>
    /\ dispatched[1].events[1].page > 0
    /\ dispatched[2].events # <<>>
    /\ dispatched[2].events[1].page = 0
    /\ dispatched[2].events[1].documentId # dispatched[1].events[1].documentId
    /\ app.pdfViewerMode = "text"
    /\ app.selectedDocumentId = dispatched[2].events[1].documentId
    /\ app.highlightedChunkId = dispatched[2].events[1].chunkId

\* The highlighted chunk is among the chunks the viewer holds.
HighlightLoaded ==
    /\ viewer.mounted
    /\ app.highlightedChunkId # ""
    /\ \E i \in 1..Len(viewer.chunks) : viewer.chunks[i].id = app.highlightedChunkId

\* C22: after the activation of a citation for chunk c (c is the highlighted
\* chunk), once the chunks the viewer holds include c and the effects have
\* run, currentPage is the key of the bucket that owns c, and it is so in
\* every later state until the highlight or the chunks change; the document
\* of c need not be the one selected before.
C22_PageFollowsCitedChunk ==
    HighlightLoaded =>
        /\ app.pdfCurrentPage \in DOMAIN buckets(viewer)
        /\ \E k \in 1..Len(buckets(viewer)[app.pdfCurrentPage]) :
               buckets(viewer)[app.pdfCurrentPage][k].id = app.highlightedChunkId

\* A citation into "A" was followed by one for the second chunk of "X"; the
\* chunks of "X" are loaded and the page is the one that owns the chunk, not
\* the first page the new selection was reset to.
C22_CitedChunkOfOtherDocument ==
    /\ Len(dispatched) = 2
    /\ dispatched[1].events # <<>>
    /\ dispatched[1].events[1].documentId = "A"
    /\ dispatched[2].events # <<>>
    /\ dispatched[2].events[1].chunkId = "x2"
    /\ app.selectedDocumentId = "X"
    /\ app.highlightedChunkId = "x2"
    /\ viewer.lastLoaded = [documentId |-> "X", ok |-> TRUE]
    /\ viewer.loads = {}
    /\ HighlightLoaded
    /\ app.pdfCurrentPage > 1

\* --------------------------------------------- claims on the loads

\* C24: the step in which a call of loadChunks fails (getDocumentById or
\* getChunksByDocument rejects) leaves the viewer with no chunks, no title
\* and isLoading = false; a call that returns after a failure leaves the
\* viewer with the chunks of its document and isLoading = false.
C24_FailedLoadLeavesEmptyViewer ==
    [][\A l \in viewer.loads :
           Completes(l) =>
               /\ ~viewer'.lastLoaded.ok =>
                      /\ viewer'.chunks = <<>>
                      /\ viewer'.documentTitle = ""
                      /\ ~viewer'.isLoading
                      /\ viewer'.anyFailed
               /\ (viewer'.lastLoaded.ok /\ viewer.anyFailed) =>
                      /\ viewer'.chunks =
                             getChunksByDocument(pdf_chunks, l.documentId)
                      /\ ~viewer'.isLoading
      ]_vars

\* The load of the first cited document failed; the document cited next is
\* loaded and shown.
C24_LoadedAfterFailure ==
    /\ Len(dispatched) = 2
    /\ viewer.mounted
    /\ viewer.anyFailed
    /\ viewer.loads = {}
    /\ viewer.started = 2
    /\ viewer.lastLoaded = [documentId |-> app.selectedDocumentId, ok |-> TRUE]
    /\ viewer.chunks # <<>>
    /\ viewer.chunks = getChunksByDocument(pdf_chunks, app.selectedDocumentId)
    /\ Ready(app, viewer)

\* C26: when a document is selected while the fetch for the document
\* selected before is in flight, the viewer is not shown ready as long as the
\* fetch of the selected document is outstanding, and once the fetches have
\* returned (none failed) the chunks, the title and totalPages the viewer
\* holds are those of the selected document.
C26_LatestSelectionWins ==
    LET B == app.selectedDocumentId
        document == getDocumentById(pdf_documents, B)
    IN  (viewer.mounted /\ ~viewer.anyFailed) =>
            /\ (\E l \in viewer.loads : l.documentId = B) => viewer.isLoading
            /\ (viewer.loads = {} /\ viewer.started >= 2) =>
                   /\ viewer.chunks = getChunksByDocument(pdf_chunks, B)
                   /\ document # noDocument =>
                          /\ viewer.documentTitle = document.title
                          /\ viewer.documentTotalPages = document.totalPages

\* ------------------------------------------------ claims on the navigation

\* The pages that own a chunk of the document shown.
Owned == pageKeys(viewer.chunks, viewer.documentTotalPages)

\* The pages above / below the requested page that own a chunk.
OwnedAbove ==
    {p \in Owned : p > app.pdfCurrentPage + 1 /\ p <= totalPagesOf(viewer)}

OwnedBelow ==
    {p \in Owned : p < app.pdfCurrentPage - 1 /\ p >= 1}

\* C27: when neither the requested page (currentPage + 1 for next,
\* currentPage - 1 for previous) nor any page beyond it in the direction of
\* travel owns a chunk, the previous / next navigation changes neither
\* currentPage nor suppressObserverRef.
C27_NoChunkNoMove ==
    [][(\/ /\ NextPage
           /\ app.pdfCurrentPage + 1 \notin Owned
           /\ OwnedAbove = {}
        \/ /\ PreviousPage
           /\ app.pdfCurrentPage - 1 \notin Owned
           /\ OwnedBelow = {})
           => /\ app'.pdfCurrentPage = app.pdfCurrentPage
              /\ viewer'.suppressObserverRef = viewer.suppressObserverRef
      ]_vars

\* C28: when the requested page owns no chunk and a page beyond it in the
\* direction of travel does, handleNextPage sets currentPage
\* (onPdfPageChange) to the lowest owning page above the requested one and
\* handlePreviousPage to the highest owning page below it; with no chunk
\* highlighted that is the page shown after the effects.
C28_NearestOwningPage ==
    [][/\ (NextPage /\ app.pdfCurrentPage + 1 \notin Owned /\ OwnedAbove # {})
           => /\ viewer'.requestedPage \in OwnedAbove
              /\ \A p \in OwnedAbove : viewer'.requestedPage <= p
              /\ app.highlightedChunkId = ""
                     => app'.pdfCurrentPage = viewer'.requestedPage
       /\ (PreviousPage /\ app.pdfCurrentPage - 1 \notin Owned /\ OwnedBelow # {})
           => /\ viewer'.requestedPage \in OwnedBelow
              /\ \A p \in OwnedBelow : viewer'.requestedPage >= p
              /\ app.highlightedChunkId = ""
                     => app'.pdfCurrentPage = viewer'.requestedPage
      ]_vars

\* The next button has just moved the viewer from page 2 over the empty
\* page 3 to page 4, with pages 2, 4 and 6 owning the chunks.
C28_SkippedEmptyPage ==
    /\ Ready(app, viewer)
    /\ app.highlightedChunkId = ""
    /\ Owned = {2, 4, 6}
    /\ app.pdfCurrentPage = 4
    /\ viewer.requestedPage = 4
    /\ viewer.suppressObserverRef
    /\ \E t \in viewer.timers :
           t.callback = "resumeObserver" /\ t.delay = settleDelay
                                         /\ t.due = settleDelay \div TimeUnit

\* C29: whatever chunk is highlighted, after the previous button, the next
\* button or the page-number input has navigated to page t
\* (onPdfPageChange(t)) and the effects have run, currentPage is t.
C29_NavigationReachesTarget ==
    [][(PreviousPage \/ NextPage \/ PageEntry)
           => app'.pdfCurrentPage = viewer'.requestedPage]_vars

\* C25: after handlePreviousPage or handleNextPage has navigated,
\* suppressObserverRef is true for as long as the settle delay of that
\* navigation has not elapsed, whatever other navigations and timers
\* interleave.
C25_SuppressedUntilSettled ==
    \A t \in viewer.timers :
        (t.callback = "resumeObserver" /\ t.delay = settleDelay /\ t.due > 0)
            => viewer.suppressObserverRef

\* The timers that end a wheel cooldown.
Cooldowns == {t \in viewer.timers : t.callback = "endCooldown"}

\* C30: a wheel event changes the page or starts a navigation only in text
\* mode, with no cooldown active, when it scrolls up at the top edge with
\* currentPage > 1 or down at the bottom edge with currentPage <
\* totalPages; the event that does starts the cooldown, which stays active
\* until its timer runs, so that between the start of a cooldown and its
\* expiry no other wheel event changes currentPage.
C30_WheelAtEdgeOncePerCooldown ==
    [][/\ \A deltaY \in {-1, 1}, atTop \in BOOLEAN, atBottom \in BOOLEAN :
              WheelEvent(deltaY, atTop, atBottom)
                  => /\ app.pdfViewerMode = "text"
                     /\ ~viewer.wheelCooldownRef
                     /\ \/ deltaY < 0 /\ atTop /\ app.pdfCurrentPage > 1
                        \/ deltaY > 0 /\ atBottom
                                      /\ app.pdfCurrentPage < totalPagesOf(viewer)
                     /\ viewer'.wheelCooldownRef
                     /\ deltaY < 0 => app'.pdfCurrentPage <= app.pdfCurrentPage
                     /\ deltaY > 0 => app'.pdfCurrentPage >= app.pdfCurrentPage
       /\ viewer'.wheelCooldownRef => Cardinality(Cooldowns') = 1
       /\ (viewer.wheelCooldownRef /\ ~viewer'.wheelCooldownRef)
              => \E t \in Cooldowns : t.due = 0 /\ Cooldowns' = {}
      ]_vars

\* A wheel event at the bottom edge has moved the text view from page 1 to
\* page 2; its cooldown has lasted the 300 ms and is still active, its timer
\* being due, 100 ms before the observer is resumed.
C30_CooldownAfterWheelNavigation ==
    /\ Ready(app, viewer)
    /\ app.pdfViewerMode = "text"
    /\ app.pdfCurrentPage = 2
    /\ viewer.requestedPage = 2
    /\ viewer.wheelCooldownRef
    /\ \E t \in Cooldowns : t.due = 0
    /\ \E t \in viewer.timers :
           t.callback = "resumeObserver" /\ t.delay = settleDelay /\ t.due = 2

\* The content contains the query when the case of the letters is ignored.
ContainsIgnoringCase(content, q) ==
    \E i \in 0..(Len(content) - Len(q)) :
        \A j \in 1..Len(q) : lowerOf(content[i + j]) = lowerOf(q[j])

\* The positions of the chunks held whose content contains the query.
Hits(q) ==
    {i \in 1..Len(viewer.chunks) :
        ContainsIgnoringCase(viewer.chunks[i].content, q)}

HidePending(k) ==
    /\ tooltip.hideTimeoutRef.live
    /\ tooltip.hideTimeoutRef.uniqueKey = k
    /\ tooltip.hideTimeoutRef.tooltipRef = k

\* The last call re-entered the panel or the marker of the key that was
\* visible, while its hide was pending.
ReEntered ==
    /\ tooltip.lastCall.timerBefore
    /\ tooltip.lastCall.visibleBefore # ""
    /\ \/ tooltip.lastCall.op \in {"cancelHide", "handleTooltipMouseEnter"}
       \/ /\ tooltip.lastCall.op = "showTooltip"
          /\ tooltip.lastCall.uniqueKey = tooltip.lastCall.visibleBefore

\* C31: after hideTooltip(k, delay > 0) on the visible key k the tooltip is
\* still visible and is hidden only when the timer expires; when cancelHide
\* (directly or by entering the panel) or showTooltip(k, ...) is called
\* before that, no hide timer is left pending and k stays visible.
C31_HideWaitsAndIsCancelled ==
    /\ (/\ tooltip.lastCall.op \in {"hideTooltip", "handleTooltipMouseLeave"}
        /\ tooltip.hideTimeoutRef.live
        /\ tooltip.lastCall.uniqueKey = tooltip.lastCall.visibleBefore)
           => /\ isTooltipVisible(tooltip, tooltip.lastCall.uniqueKey)
              /\ HidePending(tooltip.lastCall.uniqueKey)
    /\ ReEntered
           => /\ isTooltipVisible(tooltip, tooltip.lastCall.visibleBefore)
              /\ ~tooltip.hideTimeoutRef.live
              /\ tooltip.hideRequested = ""

\* The pointer has entered the panel while the hide of the visible key was
\* pending.
C31_PanelEnteredWhileHiding ==
    /\ tooltip.lastCall.op = "handleTooltipMouseEnter"
    /\ tooltip.lastCall.timerBefore
    /\ tooltip.lastCall.visibleBefore # ""
    /\ visibleKey(tooltip) = tooltip.lastCall.visibleBefore

\* C32: after hideTooltip(k, d) with d > 0 for the visible key k, and as
\* long as no showTooltip or cancelHide call follows, the tooltip is
\* eventually hidden, whatever hideTooltip calls for other keys are made in
\* the meantime.
C32_RequestedHideHappens ==
    \A k \in TooltipKeys :
        (tooltip.hideRequested = k)
            ~> (tooltip.hideRequested = "" \/ visibleKey(tooltip) = "")

\* ------------------------------------------------- claims on the windows

\* The separators of the text inside the window that starts at `position`.
Separators(position) ==
    {j \in DOMAIN text.marks :
        /\ position <= j
        /\ j < position + chunkSize
        /\ text.marks[j] \in {".", "\n", " "}}

\* C33: for every window [position, position + chunkSize) that ends before
\* the end of the text, the first one and the later ones alike: when the
\* latest '.', newline or space of the window lies beyond half of the
\* window the chunk ends right after that character, otherwise the chunk is
\* the whole window.
C33_CutInEveryWindow ==
    \A i \in 1..Len(produced) :
        LET c == produced[i]
            seps == Separators(c.startPos)
        IN  c.startPos + chunkSize < text.len =>
                IF seps # {} /\ 2 * (Max(seps) - c.startPos) > chunkSize
                    THEN c.endPos = Max(seps) + 1
                    ELSE c.endPos = c.startPos + chunkSize

\* ------------------------------------------------ claims on the page count

\* C35: in every Ready state totalPages, the count shown as "N / totalPages"
\* and used to clamp the navigation, is the totalPages of the document
\* selected when that is above 0, and else the largest key of the page-bucket
\* map the viewer holds (0 when it holds no chunks).  Stated for the Ready
\* states a successful load of the selected document has led to, with no
\* other load pending and none failed before.
C35_TotalPagesOfSelectedDocument ==
    (/\ Ready(app, viewer)
     /\ viewer.loads = {}
     /\ ~viewer.anyFailed
     /\ viewer.lastLoaded = [documentId |-> app.selectedDocumentId,
                             ok |-> TRUE]) =>
        LET document == getDocumentById(pdf_documents, app.selectedDocumentId)
            keys == pageKeys(viewer.chunks, viewer.documentTotalPages)
        IN  totalPagesOf(viewer) =
                IF document.totalPages > 0 THEN document.totalPages
                ELSE IF keys = {} THEN 0
                ELSE Max(keys)

\* -------------------------------------------------- claims on the PDF view

\* C36: with a pdfUrl that is not empty and whose file can be loaded,
\* EmbedPdfViewer eventually leaves the loading state and shows the page
\* asked for (the first page when the file has no such page), after the
\* mount, after the parent changed currentPage, and after the retry button.
C36_LoadCompletes ==
    (embed.mounted /\ Loadable(embed.pdfUrl)) ~>
        \/ ~embed.mounted
        \/ ~Loadable(embed.pdfUrl)
        \/ /\ ~embed.loading
           /\ embed.document = "loaded"
           /\ embed.pageNumber =
                 IF embed.currentPage > 0 /\ embed.currentPage <= embed.numPages
                     THEN embed.currentPage ELSE 1

\* ------------------------------------------------ claims on the observer

\* C37: in the text view only the chunks of the current page are on screen,
\* so the page an observer derives from its most visible chunk is the
\* current page and the observer never changes pdfCurrentPage, whether or
\* not suppressObserverRef is set.
C37_ObserverKeepsPage ==
    [][DebounceFires => app.pdfCurrentPage' = app.pdfCurrentPage]_vars

\* ------------------------------------------- claims on the page navigation

\* pdfCurrentPage is a page of the document shown.
InRange == 1 <= app.pdfCurrentPage /\ app.pdfCurrentPage <= totalPagesOf(viewer)

\* C38: from a page within 1..totalPages the next-page button never lowers
\* the page and the previous-page button never raises it, and after either
\* button and after an entry in the page-number input the page is within
\* 1..max(1, totalPages).
C38_NavigationStaysInRange ==
    [][/\ (PagerNext /\ InRange) =>
             app.pdfCurrentPage' >= app.pdfCurrentPage
       /\ (PagerPrevious /\ InRange) =>
             app.pdfCurrentPage' <= app.pdfCurrentPage
       /\ ((PagerNext \/ PagerPrevious \/ PageTyped) /\ InRange) =>
             /\ 1 <= app.pdfCurrentPage'
             /\ app.pdfCurrentPage' <= Max2(1, totalPagesOf(viewer'))]_vars

\* ------------------------------------------- claims on the page-bucket map

\* C39: the page-bucket map is a partition of the loaded chunks: each chunk
\* is in exactly one bucket, once; no bucket is empty; and the chunks of a
\* bucket are in the order of the collection.
C39_BucketsPartitionChunks ==
    LET b == buckets(viewer)
        N == Len(viewer.chunks)
        places == UNION {{<<p, k>> : k \in 1..Len(b[p])} : p \in DOMAIN b}
        at == [pk \in places |-> b[pk[1]][pk[2]]]
        index == [pk \in places |->
                     {i \in 1..N : viewer.chunks[i] = at[pk]}]
    IN  /\ \A i \in 1..N :
               Cardinality({pk \in places : at[pk] = viewer.chunks[i]}) = 1
        /\ \A p \in DOMAIN b : Len(b[p]) > 0
        /\ \A pk \in places, ql \in places :
               (pk[1] = ql[1] /\ pk[2] < ql[2]) =>
                   \A i \in index[pk], j \in index[ql] : i < j

\* Chunks are loaded into more than one bucket, one of which holds several.
C39_SeveralBuckets ==
    /\ Ready(app, viewer)
    /\ Cardinality(DOMAIN buckets(viewer)) > 1
    /\ \E p \in DOMAIN buckets(viewer) : Len(buckets(viewer)[p]) > 1

====
